---- MODULE Spec2Model ----
(***************************************************************************)
(* Verification model of the face-data collection and gallery management   *)
(* application: the session documents written by the data-collection       *)
(* server (src/data_collection/server/app.py), the video quality gate      *)
(* (src/src/quality_checker.py), the student-data services                 *)
(* (src/src/services/student_data_service.py), the gallery registry        *)
(* (src/src/database/models.py, src/src/api/routes.py) and face            *)
(* recognition (src/src/services/gallery_service.py).                      *)
(*                                                                         *)
(* Conventions.  A Python dict is a sequence of <<key, value>> pairs with  *)
(* distinct keys, in insertion order.  Similarities are integer percents   *)
(* (0.45 is 45).  An embedding vector is an abstract centroid id; the      *)
(* cosine similarity of a detected face to a centroid is an input.         *)
(***************************************************************************)
EXTENDS Integers, Sequences, FiniteSets, TLC

VARIABLES
    gallery_files,   \* gallery/galleries/*.pth on disk: path -> content
    rec,             \* the last recognize_faces call: its inputs and its result
    qvideo,          \* the video file handed to check_single_video_quality
    qresult,         \* what check_single_video_quality returned for it
    db,              \* the identity store: batch_years, departments, galleries
    face_data,       \* gallery/data/: batch folder -> identity folders -> images
    response,        \* the last response of the gallery manager's API
    gallery_call,    \* the last create_gallery or update_gallery call with its inputs
    student_data,    \* data/student_data/247_2027/: regNo -> the student's directory
    batch_folder,    \* whether data/student_data/247_2027 exists
    crops,           \* gallery/data/247_2027/: regNo -> the crop files of the student
    clock,           \* the wall clock; also the source of fresh session ids
    last,            \* the last call on the session documents, with its pre-state
    reports,         \* the quality_check_reports table with its result rows
    upload_req,      \* an upload request the collection server is handling
    gate_run,        \* a quality check the gallery manager is running
    report_db,       \* the two report tables with the connections working on them
    scheduler        \* the background scheduler of every worker process of the manager

recVars == <<gallery_files, rec>>
qcVars == <<qvideo, qresult>>
dbVars == <<db, face_data, response, gallery_call>>
sessVars == <<student_data, batch_folder, crops, clock, last, reports>>
concVars == <<upload_req, gate_run, report_db, scheduler>>
vars == <<gallery_files, rec, qvideo, qresult, db, face_data, response, gallery_call,
          student_data, batch_folder, crops, clock, last, reports,
          upload_req, gate_run, report_db, scheduler>>

None == "None"

(***************************************************************************)
(* Generic helpers for Python lists and dicts.                             *)
(***************************************************************************)
Range(s) == {s[i] : i \in 1..Len(s)}

\* keys of a dict, in insertion order
DictKeys(d) == [i \in 1..Len(d) |-> d[i][1]]

HasKey(d, k) == \E i \in 1..Len(d) : d[i][1] = k

DictGet(d, k) == d[CHOOSE i \in 1..Len(d) : d[i][1] = k][2]

\* d[k] = v : replaces the value in place, or appends a new key at the end
DictSet(d, k, v) ==
    IF HasKey(d, k)
    THEN [i \in 1..Len(d) |-> IF d[i][1] = k THEN <<k, v>> ELSE d[i]]
    ELSE Append(d, <<k, v>>)

RECURSIVE DictUpdate(_, _)
\* d.update(other) for a dict other
DictUpdate(d, other) ==
    IF other = <<>> THEN d
    ELSE DictUpdate(DictSet(d, other[1][1], other[1][2]), Tail(other))

\* the mathematical map a dict stands for
AsMap(d) == [k \in Range(DictKeys(d)) |-> DictGet(d, k)]

RECURSIVE InsertDesc(_, _)
\* x put after every element whose key is >= x.key (a stable descending sort)
InsertDesc(sorted, x) ==
    IF sorted = <<>> THEN <<x>>
    ELSE IF sorted[1].key >= x.key
         THEN <<sorted[1]>> \o InsertDesc(Tail(sorted), x)
         ELSE <<x>> \o sorted

RECURSIVE SortDesc(_)
\* list.sort(key=..., reverse=True): descending by .key, equal keys keep their order
SortDesc(s) ==
    IF s = <<>> THEN <<>>
    ELSE InsertDesc(SortDesc(SubSeq(s, 1, Len(s) - 1)), s[Len(s)])

\* the non-empty sequences over S of length at most n
SeqsUpTo(S, n) == UNION {[1..k -> S] : k \in 1..n}

(***************************************************************************)
(* Quality gate: src/src/quality_checker.py                                *)
(***************************************************************************)
\* self.quality_thresholds, lines 15-23, and the face count of line 294
min_blur_score == 15
min_contrast == 20
min_face_size == 60
max_motion_blur == 80
MinTotalFaces == 3

\* the longest list of sampled frames the model draws
MaxFrames == 3

RECURSIVE Sum(_)
Sum(s) == IF s = <<>> THEN 0 ELSE s[1] + Sum(Tail(s))

\* np.mean(scores) if scores else 0, compared with a threshold: the mean is
\* Sum/Len, so mean < t is Sum < t * Len
MeanBelow(scores, t) ==
    IF scores = <<>> THEN 0 < t ELSE Sum(scores) < t * Len(scores)

MeanAbove(scores, t) ==
    IF scores = <<>> THEN 0 > t ELSE Sum(scores) > t * Len(scores)

\* the mean itself, as the pair <<sum, count>>
Mean(scores) == <<Sum(scores), Len(scores)>>

\* a sampled frame: the number of boxes the detector returns at conf 0.65, the
\* Laplacian variance, the grey-level deviation, the Canny edge mean, the longer
\* side of the face box, and the label the landmark estimator gives
Frame(faces, blur, contrast, motion, size, pose) ==
    [faces |-> faces, blur |-> blur, contrast |-> contrast, motion |-> motion,
     size |-> size, pose |-> pose]

\* state of the frame loop, lines 180-187
LoopStart ==
    [total_faces |-> 0, multiple_faces_count |-> 0, blur_scores |-> <<>>,
     contrast_scores |-> <<>>, motion_blur_scores |-> <<>>, faces_data |-> <<>>,
     multiple_faces_critical |-> FALSE, frames_processed |-> 0]

\* a frame with more than one face that does not end the loop
MultiFaceFrame_NoBreak(acc, frame) ==
    [acc EXCEPT !.total_faces = @ + frame.faces,
                !.multiple_faces_count = @ + 1,
                !.frames_processed = @ + 1]

\* lines 201-222: a frame with more than one face
MultiFaceFrame(acc, frame) ==
    [acc EXCEPT !.total_faces = @ + frame.faces,
                !.multiple_faces_count = @ + 1,
                !.multiple_faces_critical = TRUE,
                !.frames_processed = @ + 1]

\* lines 201-202, 224-259: a frame with exactly one face
SingleFaceFrame(acc, frame) ==
    [acc EXCEPT !.total_faces = @ + frame.faces,
                !.blur_scores = Append(@, frame.blur),
                !.contrast_scores = Append(@, frame.contrast),
                !.motion_blur_scores = Append(@, frame.motion),
                !.faces_data = Append(@, [size |-> frame.size]),
                !.frames_processed = @ + 1]

RECURSIVE FrameLoop(_, _)
\* lines 190-279: the loop over the sampled frames, left at the first frame
\* with more than one face
FrameLoop(frames, acc) ==
    IF frames = <<>> \/ acc.multiple_faces_critical THEN acc
    ELSE LET frame == frames[1]
         IN IF frame.faces > 1 THEN FrameLoop(Tail(frames), MultiFaceFrame(acc, frame))
            ELSE IF frame.faces = 1
                 THEN FrameLoop(Tail(frames), SingleFaceFrame(acc, frame))
                 ELSE FrameLoop(Tail(frames),
                                [acc EXCEPT !.frames_processed = @ + 1])

\* lines 97-131: estimate_face_pose returns the tuple (label, yaw, pitch, roll)
estimate_face_pose(frame) == <<frame.pose, "yaw", "pitch", "roll">>

\* Python's == between the tuple estimate_face_pose returns and a str label
\* ("unknown" at line 141, "front" and "side" in the set difference of line
\* 336): a tuple never equals a str
TupleEqualsStr(pose, label) == FALSE

\* lines 133-143: one pose per (frame, face) pair of zip(frames, faces_data)
check_pose_diversity(frames, faces_data) ==
    LET n == IF Len(frames) < Len(faces_data) THEN Len(frames) ELSE Len(faces_data)
    IN {estimate_face_pose(frames[i]) : i \in
            {j \in 1..n : ~TupleEqualsStr(estimate_face_pose(frames[j]), "unknown")}}

required_poses == {"front", "side"}

\* lines 334-336
missing_poses(frames, faces_data) ==
    {r \in required_poses :
        \A p \in check_pose_diversity(frames, faces_data) : ~TupleEqualsStr(p, r)}

\* line 338; the order of the labels in the message follows the set's iteration
\* order, written here in one fixed order
MissingPoseIssue(missing) ==
    IF missing = {"front", "side"} THEN "Missing face angles: front, side"
    ELSE IF missing = {"front"} THEN "Missing face angles: front"
    ELSE "Missing face angles: side"

\* lines 321-329
Category(critical_issues, major_issues, minor_issues) ==
    IF critical_issues # <<>> THEN "fail"
    ELSE IF major_issues # <<>> THEN "borderline"
    ELSE IF minor_issues # <<>> THEN "borderline"
    ELSE "pass"

\* line 346
OverallQuality(category) == IF category = "pass" THEN "pass" ELSE "fail"

NoDetails ==
    [total_faces |-> 0, multiple_faces_frames |-> 0, avg_blur_score |-> <<0, 0>>,
     avg_contrast |-> <<0, 0>>, avg_motion_blur |-> <<0, 0>>,
     avg_face_size |-> <<0, 0>>, frames_analyzed |-> 0]

\* lines 148-153 and 158-163: the two error results; they carry no issue lists
\* (empty here, as the .get(..., []) of lines 443-446 reads them)
ErrorResult(error) ==
    [overall_quality |-> "fail", category |-> "fail", error |-> error,
     quality_issues |-> <<>>, critical_issues |-> <<>>, major_issues |-> <<>>,
     minor_issues |-> <<>>, details |-> NoDetails, frames_processed |-> 0]

\* lines 145-364; video is the file at video_path: whether it exists and the
\* frames sample_frames(video_path, 200) decodes from it
check_single_video_quality(video) ==
    IF ~video.exists THEN ErrorResult("Video file not found")
    ELSE IF video.frames = <<>> THEN ErrorResult("Could not extract frames from video")
    ELSE
    LET frames == video.frames
        acc == FrameLoop(frames, LoopStart)
        sizes == [i \in 1..Len(acc.faces_data) |-> acc.faces_data[i].size]
        critical_issues ==
            (IF acc.total_faces < MinTotalFaces
             THEN <<"No face detected or very few faces">> ELSE <<>>)
            \o (IF acc.multiple_faces_critical
                THEN <<"Multiple faces detected in at least one frame (critical fail)">>
                ELSE <<>>)
        major_issues ==
            (IF MeanBelow(acc.blur_scores, min_blur_score)
             THEN <<"Video too blurry">> ELSE <<>>)
            \o (IF MeanBelow(acc.contrast_scores, min_contrast)
                THEN <<"Poor lighting/contrast">> ELSE <<>>)
            \o (IF MeanBelow(sizes, min_face_size)
                THEN <<"Face too small in frame">> ELSE <<>>)
        minor_before_pose ==
            (IF acc.multiple_faces_count > 0 /\ ~acc.multiple_faces_critical
             THEN <<"Multiple people in some frames">> ELSE <<>>)
            \o (IF MeanAbove(acc.motion_blur_scores, max_motion_blur)
                THEN <<"Some motion blur detected">> ELSE <<>>)
        \* lines 321-331: the category and all_issues are taken here
        category == Category(critical_issues, major_issues, minor_before_pose)
        all_issues == critical_issues \o major_issues \o minor_before_pose
        \* lines 334-338: and minor_issues grows afterwards
        missing == missing_poses(frames, acc.faces_data)
        minor_issues ==
            minor_before_pose
            \o (IF missing # {} THEN <<MissingPoseIssue(missing)>> ELSE <<>>)
    IN [overall_quality |-> OverallQuality(category),
        category |-> category,
        error |-> "",
        quality_issues |-> all_issues,
        critical_issues |-> critical_issues,
        major_issues |-> major_issues,
        minor_issues |-> minor_issues,
        details |-> [total_faces |-> acc.total_faces,
                     multiple_faces_frames |-> acc.multiple_faces_count,
                     avg_blur_score |-> Mean(acc.blur_scores),
                     avg_contrast |-> Mean(acc.contrast_scores),
                     avg_motion_blur |-> Mean(acc.motion_blur_scores),
                     avg_face_size |-> Mean(sizes),
                     frames_analyzed |-> Len(frames)],
        frames_processed |-> acc.frames_processed]

\* the frames the model draws: no face, several faces, one frontal face with
\* every metric on either side of its threshold, and one well-taken face turned
\* to the side or in a pose the estimator cannot tell
FrameKinds ==
    {Frame(0, 0, 0, 0, 0, "unknown"), Frame(2, 0, 0, 0, 0, "unknown")}
    \cup {Frame(1, b, c, m, z, "front") :
            b \in {10, 20}, c \in {10, 30}, m \in {50, 100}, z \in {40, 80}}
    \cup {Frame(1, 20, 30, 50, 80, p) : p \in {"side", "unknown"}}

VideoFiles ==
    {[exists |-> FALSE, frames |-> <<>>], [exists |-> TRUE, frames |-> <<>>]}
    \cup {[exists |-> TRUE, frames |-> f] : f \in SeqsUpTo(FrameKinds, MaxFrames)}

NotChecked == [done |-> FALSE, result |-> ErrorResult("")]

\* no video under check
QualityIdle ==
    /\ qvideo = [exists |-> FALSE, frames |-> <<>>]
    /\ qresult = NotChecked

CheckSingleVideo ==
    /\ ~qresult.done
    /\ qresult' = [done |-> TRUE, result |-> check_single_video_quality(qvideo)]
    /\ UNCHANGED <<qvideo, concVars, recVars, dbVars, sessVars>>

(***************************************************************************)
(* Recognition: src/src/services/gallery_service.py                        *)
(***************************************************************************)
IdA == "714023247001"
IdB == "714023247002"
Identities == {IdA, IdB}
Centroids == {"c1", "c2"}
GalleryPaths == {"g1.pth", "g2.pth"}

\* bounds of the recognition inputs
MaxFaces == 2
MaxGalleryList == 2
DefaultThreshold == 45
Thresholds == {DefaultThreshold, 62}
SimValues == {58, 61, 63, 71}

\* what torch.load finds at a gallery path
NoFile == [shape |-> "none"]
DirectFile(d) == [shape |-> "direct", dict |-> d]
ParallelFile(ids, embs) == [shape |-> "parallel", identities |-> ids, embeddings |-> embs]

\* every dict {identity -> centroid} over Identities, in every key order
GalleryDicts ==
    {<<>>}
    \cup {<<<<i, c>>>> : i \in Identities, c \in Centroids}
    \cup {<<<<i, c>>, <<j, e>>>> : <<i, j>> \in {<<IdA, IdB>>, <<IdB, IdA>>},
                                  <<c, e>> \in Centroids \X Centroids}

FileContents ==
    {NoFile}
    \cup {DirectFile(d) : d \in GalleryDicts}
    \cup {ParallelFile(DictKeys(d), [i \in 1..Len(d) |-> d[i][2]]) : d \in GalleryDicts}

\* combined_gallery.update(gallery_data["identities"]): dict.update of a list of
\* identity strings.  Every element must be a sequence of length 2; an identity
\* (a registration number, 9 characters or more) is not, so the call raises
\* ValueError at the first element, which line 100 catches: nothing is added.
\* An empty list adds nothing either.
DictUpdateFromIdentityList(d, identities) == d

\* lines 91-101: one gallery path of the loop; a file torch.load cannot read
\* raises into the except of line 100
LoadGallery(combined_gallery, gallery_data) ==
    IF gallery_data.shape \in {"none", "partial"} THEN combined_gallery
    ELSE IF gallery_data.shape = "parallel"
         THEN DictUpdateFromIdentityList(combined_gallery, gallery_data.identities)
         ELSE DictUpdate(combined_gallery, gallery_data.dict)

RECURSIVE LoadGalleries(_, _, _)
\* lines 88-101: load and combine all galleries, in the order of the list
LoadGalleries(files, gallery_paths, combined_gallery) ==
    IF gallery_paths = <<>> THEN combined_gallery
    ELSE LoadGalleries(files, Tail(gallery_paths),
                       LoadGallery(combined_gallery, files[gallery_paths[1]]))

\* line 156: the threshold test of one gallery entry
AboveThreshold(similarity, threshold) == similarity >= threshold

RECURSIVE MatchList(_, _, _)
\* lines 153-157: the matches of one face, in the order of the combined gallery;
\* sim[c] is 1 - cosine(face_embedding, c)
MatchList(combined_gallery, sim, threshold) ==
    IF combined_gallery = <<>> THEN <<>>
    ELSE LET identity == combined_gallery[1][1]
             similarity == sim[combined_gallery[1][2]]
             rest == MatchList(Tail(combined_gallery), sim, threshold)
         IN IF AboveThreshold(similarity, threshold)
            THEN <<[identity |-> identity, similarity |-> similarity,
                    key |-> similarity]>> \o rest
            ELSE rest

\* lines 152-166: the record appended to face_detections for face i
FaceDetection(combined_gallery, faces, i, threshold) ==
    LET matches == SortDesc(MatchList(combined_gallery, faces[i], threshold))
    IN [bbox |-> i, matches |-> matches,
        key |-> IF matches # <<>> THEN matches[1].similarity ELSE 0]

BestUnassigned_First(matches, assigned_identities) ==
    IF matches = <<>> THEN <<>> ELSE <<matches[1]>>

\* lines 179-186: the best match whose identity is not assigned yet, as a list
\* of one match, or the empty list for best_match = None
BestUnassigned(matches, assigned_identities) ==
    LET free == {i \in 1..Len(matches) : matches[i].identity \notin assigned_identities}
    IN IF free = {} THEN <<>>
       ELSE <<matches[CHOOSE i \in free : \A j \in free : i <= j]>>

RECURSIVE AssignIdentities(_, _, _)
\* lines 171-202: the greedy loop over the sorted detections
AssignIdentities(face_detections, assigned_identities, detected_faces) ==
    IF face_detections = <<>> THEN detected_faces
    ELSE LET face == face_detections[1]
             best == BestUnassigned(face.matches, assigned_identities)
         IN IF best # <<>>
            THEN AssignIdentities(Tail(face_detections),
                     assigned_identities \cup {best[1].identity},
                     Append(detected_faces,
                            [identity |-> best[1].identity,
                             similarity |-> best[1].similarity,
                             bounding_box |-> face.bbox]))
            ELSE AssignIdentities(Tail(face_detections), assigned_identities,
                     Append(detected_faces,
                            [identity |-> "Unknown", similarity |-> 0,
                             bounding_box |-> face.bbox]))

OrderDetections_Unsorted(face_detections) == face_detections

\* line 169: face_detections.sort(best similarity, reverse=True)
OrderDetections(face_detections) == SortDesc(face_detections)

\* lines 78-241; faces are the detections that survive the size tests of lines
\* 124-133, each given by its similarity to every centroid
recognize_faces(files, gallery_paths, faces, threshold) ==
    LET combined_gallery == LoadGalleries(files, gallery_paths, <<>>)
    IN IF combined_gallery = <<>>
       THEN [combined_gallery |-> combined_gallery, detected_faces |-> <<>>]
       ELSE LET face_detections ==
                    [i \in 1..Len(faces) |->
                        FaceDetection(combined_gallery, faces, i, threshold)]
            IN [combined_gallery |-> combined_gallery,
                detected_faces |->
                    AssignIdentities(OrderDetections(face_detections), {}, <<>>)]

\* before the first call
NoRecognition ==
    [called |-> FALSE, gallery_paths |-> <<>>, faces |-> <<>>, threshold |-> 0,
     result |-> [combined_gallery |-> <<>>, detected_faces |-> <<>>]]

FaceSims == [Centroids -> SimValues]

\* the recognize endpoint (src/src/api/routes.py:522-575) with its request
Recognize(pathLists, faceLists) ==
    /\ ~rec.called
    /\ \E gallery_paths \in pathLists, faces \in faceLists, threshold \in Thresholds :
        /\ rec' = [called |-> TRUE, gallery_paths |-> gallery_paths, faces |-> faces,
                   threshold |-> threshold,
                   result |-> recognize_faces(gallery_files, gallery_paths, faces, threshold)]
        /\ UNCHANGED <<gallery_files, qcVars, concVars, dbVars, sessVars>>

\* no gallery on disk, no recognition asked
RecIdle ==
    /\ gallery_files = [p \in GalleryPaths |-> NoFile]
    /\ rec = NoRecognition

RecognizeFaces == Recognize({<<"g1.pth", "g2.pth">>}, SeqsUpTo(FaceSims, MaxFaces))

RecognizeOverGalleries ==
    Recognize(SeqsUpTo(GalleryPaths, MaxGalleryList), SeqsUpTo(FaceSims, 1))

(***************************************************************************)
(* Identity store and gallery creation: src/src/database/models.py,        *)
(* src/src/ml/gallery_operations.py, src/src/api/routes.py                 *)
(***************************************************************************)
IdC == "714023247003"

\* the rows init_db inserts into empty tables
default_years == <<"2029", "2028", "2027", "2026">>

default_departments ==
    <<<<"DPT001", "CS">>, <<"DPT002", "IT">>, <<"DPT003", "ECE">>,
      <<"DPT004", "EEE">>, <<"DPT005", "CIVIL">>>>

\* the students table: its columns (none when the table does not exist) and
\* its rows, each with the value of its section column
NoStudents == [columns |-> {}, rows |-> <<>>]

StudentColumns ==
    {"id", "register_no", "name", "dob", "department_id", "department", "batch",
     "regulation", "semester"}

\* a table is the sequence of its rows in rowid order; a database file that
\* does not exist yet has no table, which for the rows is an empty table
NoDatabase ==
    [batch_years |-> <<>>, departments |-> <<>>, galleries |-> <<>>,
     students |-> NoStudents]

\* defaults inserted into a table whatever it holds: INSERT OR IGNORE skips the
\* rows whose key is there
InsertIfEmpty_Always(table, rows, key) ==
    LET fresh == SelectSeq(rows, LAMBDA r :
                    \A i \in 1..Len(table) : table[i][key] # r[key])
    IN table \o [i \in 1..Len(fresh) |-> [fresh[i] EXCEPT !.id = Len(table) + i]]

\* models.py lines 95-99 and 101-111: SELECT COUNT(*) and, at 0, the inserts
InsertIfEmpty(table, rows, key) == IF table = <<>> THEN rows ELSE table

\* models.py lines 72-92: CREATE TABLE IF NOT EXISTS students with a section
\* column, then ALTER TABLE ADD COLUMN section, whose duplicate-column error
\* is passed over; an added column is NULL in the rows there are
MigrateStudents(students) ==
    IF students.columns = {}
    THEN [columns |-> StudentColumns \cup {"section"}, rows |-> <<>>]
    ELSE IF "section" \in students.columns THEN students
    ELSE [columns |-> students.columns \cup {"section"},
          rows |-> [i \in 1..Len(students.rows) |->
                      [students.rows[i] EXCEPT !.section = "NULL"]]]

\* models.py lines 6-113 on the database d
init_db_on(d) ==
    [d EXCEPT
        !.students = MigrateStudents(@),
        !.batch_years =
            InsertIfEmpty(@, [i \in 1..Len(default_years) |->
                                [id |-> i, year |-> default_years[i]]], "year"),
        !.departments =
            InsertIfEmpty(@, [i \in 1..Len(default_departments) |->
                                [id |-> i,
                                 department_id |-> default_departments[i][1],
                                 name |-> default_departments[i][2]]],
                          "department_id")]

\* the database after the first start of the gallery manager
init_db == init_db_on(NoDatabase)

\* cursor.fetchone(): the first row of a result, or nothing
FetchOne(rows) == IF rows = <<>> THEN <<>> ELSE <<rows[1]>>

get_batch_years(d) == {d.batch_years[i].year : i \in 1..Len(d.batch_years)}

get_department_ids(d) ==
    {d.departments[i].department_id : i \in 1..Len(d.departments)}

\* str.isdigit() on the request strings the model sends
IsDigit(s) == s \in {"001"}

\* department_id LIKE '%s%' for a digit string s
CodeContains(code, s) ==
    \/ code = "DPT001" /\ s \in {"0", "1", "00", "01", "001"}
    \/ code = "DPT002" /\ s \in {"0", "2", "00", "02", "002"}
    \/ code = "DPT003" /\ s \in {"0", "3", "00", "03", "003"}
    \/ code = "DPT004" /\ s \in {"0", "4", "00", "04", "004"}
    \/ code = "DPT005" /\ s \in {"0", "5", "00", "05", "005"}

\* by name first, then by code, then by a digit run of the code
get_department_by_name_or_id(d, name_or_id) ==
    LET by_name == FetchOne(SelectSeq(d.departments, LAMBDA r : r.name = name_or_id))
        by_id == FetchOne(SelectSeq(d.departments,
                                    LAMBDA r : r.department_id = name_or_id))
        by_like == FetchOne(SelectSeq(d.departments,
                                      LAMBDA r : CodeContains(r.department_id, name_or_id)))
    IN IF by_name # <<>> THEN by_name
       ELSE IF by_id # <<>> THEN by_id
       ELSE IF IsDigit(name_or_id) THEN by_like
       ELSE <<>>

\* INSERT INTO departments under the two UNIQUE constraints
db_add_department(d, department_id, name) ==
    IF \E i \in 1..Len(d.departments) :
            \/ d.departments[i].department_id = department_id
            \/ d.departments[i].name = name
    THEN [db |-> d, ok |-> FALSE]
    ELSE [db |-> [d EXCEPT !.departments =
                    Append(@, [id |-> Len(@) + 1, department_id |-> department_id,
                               name |-> name])],
          ok |-> TRUE]

\* INSERT OR REPLACE INTO galleries: file_path is the only UNIQUE column
InsertOrReplaceGallery(galleries, row) ==
    Append(SelectSeq(galleries, LAMBDA g : g.file_path # row.file_path), row)

\* the department row is looked up by NAME
register_gallery(d, year, department, file_path, identity_count) ==
    LET year_row == FetchOne(SelectSeq(d.batch_years, LAMBDA r : r.year = year))
        dept_row == FetchOne(SelectSeq(d.departments, LAMBDA r : r.name = department))
    IN IF year_row = <<>> THEN [db |-> d, ok |-> FALSE]
       ELSE IF dept_row = <<>> THEN [db |-> d, ok |-> FALSE]
       ELSE [db |-> [d EXCEPT !.galleries =
                        InsertOrReplaceGallery(@,
                            [year_id |-> year_row[1].id,
                             department_id |-> dept_row[1].id,
                             file_path |-> file_path,
                             identity_count |-> identity_count])],
             ok |-> TRUE]

\* DELETE FROM galleries by year and department NAME
remove_gallery(d, year, department) ==
    LET year_row == FetchOne(SelectSeq(d.batch_years, LAMBDA r : r.year = year))
        dept_row == FetchOne(SelectSeq(d.departments, LAMBDA r : r.name = department))
    IN IF year_row = <<>> \/ dept_row = <<>> THEN d
       ELSE [d EXCEPT !.galleries =
                SelectSeq(@, LAMBDA g : ~(g.year_id = year_row[1].id
                                          /\ g.department_id = dept_row[1].id))]

\* f"{department}_{year}.pth" under gallery/galleries and f"{department}_{year}"
\* under gallery/data: both are the pair of their two parts
get_gallery_path(year, department) == <<department, year>>

get_data_path(year, department) == <<department, year>>

\* os.path.exists on the two directories
DataExists(path) == path \in DOMAIN face_data /\ face_data[path].exists

GalleryExists(path) == path \in DOMAIN gallery_files /\ gallery_files[path] # NoFile

\* an image file of an identity folder is the embedding extract_embedding gives
\* for it, or NoEmbedding when it gives None
NoEmbedding == "none"

\* np.mean(embeddings, axis=0), kept as the list it averages; augmented tells
\* whether augmented copies went into the list
Centroid(embeddings, augmented) == [mean_of |-> embeddings, augmented |-> augmented]

RECURSIVE GalleryOf(_, _)
\* the loop over the identity folders of data_dir
GalleryOf(listing, augmented) ==
    IF listing = <<>> THEN <<>>
    ELSE LET identity == listing[1][1]
             image_files == listing[1][2]
             embeddings == SelectSeq(image_files, LAMBDA e : e # NoEmbedding)
             rest == GalleryOf(Tail(listing), augmented)
         IN IF image_files = <<>> \/ embeddings = <<>> THEN rest
            ELSE <<<<identity, Centroid(embeddings, augmented)>>>> \o rest

\* the dict create_gallery builds, saves in the direct shape and returns
create_gallery(data_dir, augmented) == GalleryOf(data_dir.listing, augmented)

NoResponse == [op |-> "none", status |-> 0, gallery_path |-> <<>>, identities |-> 0]

\* an HTTP response: the status code and, on success, the fields of the body
Reply(op, status, gallery_path, identities) ==
    [op |-> op, status |-> status, gallery_path |-> gallery_path,
     identities |-> identities]

\* what the clients of the model send
RequestYears == {"2027", "2030"}
RequestDepartments == {"CS", "DPT001", "AIDS", "001", "MECH"}
NewDepartmentIds == {"AIDS", "DPT009"}
NewDepartmentNames == {"AIDS", "DPT001", ""}

\* POST /batches/department
add_department ==
    \E department_id \in NewDepartmentIds, department_name \in NewDepartmentNames :
        LET r == db_add_department(db, department_id, department_name)
        IN /\ IF department_name = ""
              THEN /\ response' = Reply("add_department", 400, <<>>, 0)
                   /\ UNCHANGED db
              ELSE /\ db' = r.db
                   /\ response' = Reply("add_department",
                                        IF r.ok THEN 201 ELSE 400, <<>>, 0)
           /\ UNCHANGED <<face_data, gallery_call, recVars, qcVars, concVars, sessVars>>

\* POST /galleries/create; augmented: augment_ratio > 0 and the draw chose to
\* augment
create_gallery_endpoint ==
    \E year \in RequestYears, department \in RequestDepartments, augmented \in BOOLEAN :
        LET dept_info == get_department_by_name_or_id(db, department)
        IN IF \/ dept_info = <<>>
              \/ year \notin get_batch_years(db)
              \/ ~DataExists(get_data_path(year, dept_info[1].department_id))
           THEN /\ response' = Reply("create_gallery", 400, <<>>, 0)
                /\ UNCHANGED <<db, face_data, gallery_call, recVars, qcVars, concVars, sessVars>>
           ELSE LET department_id == dept_info[1].department_id
                    data_path == get_data_path(year, department_id)
                    gallery_path == get_gallery_path(year, department_id)
                    gallery == create_gallery(face_data[data_path], augmented)
                    identity_count == Len(gallery)
                IN /\ gallery_files' =
                        [p \in DOMAIN gallery_files \cup {gallery_path} |->
                            IF p = gallery_path THEN DirectFile(gallery)
                            ELSE gallery_files[p]]
                   /\ db' = register_gallery(db, year, department_id, gallery_path,
                                             identity_count).db
                   /\ response' = Reply("create_gallery", 200, gallery_path,
                                        identity_count)
                   /\ UNCHANGED <<face_data, gallery_call, rec, qcVars, concVars, sessVars>>

\* DELETE /galleries/{year}/{department}
delete_gallery ==
    \E year \in RequestYears, department \in RequestDepartments :
        LET gallery_path == get_gallery_path(year, department)
        IN IF year \notin get_batch_years(db) \/ department \notin get_department_ids(db)
           THEN /\ response' = Reply("delete_gallery", 400, <<>>, 0)
                /\ UNCHANGED <<db, face_data, gallery_call, recVars, qcVars, concVars, sessVars>>
           ELSE IF ~GalleryExists(gallery_path)
           THEN /\ response' = Reply("delete_gallery", 404, <<>>, 0)
                /\ UNCHANGED <<db, face_data, gallery_call, recVars, qcVars, concVars, sessVars>>
           ELSE /\ gallery_files' = [gallery_files EXCEPT ![gallery_path] = NoFile]
                /\ db' = remove_gallery(db, year, department)
                /\ response' = Reply("delete_gallery", 200, gallery_path, 0)
                /\ UNCHANGED <<face_data, gallery_call, rec, qcVars, concVars, sessVars>>

\* what a caller of register_gallery passes: a year, a department name, the
\* path of a gallery file and its identity count
RegisterYears == {"2027", "2030"}
RegisterDepartments == {"CS", "IT", "MECH"}
RegisterPaths == {<<"CS", "2027">>, <<"IT", "2027">>, <<"DPT001", "2027">>}
RegisterCounts == {0, 2}

\* one call of database.register_gallery; the status of the reply is the bool
\* it returns, as 1 or 0
RegisterGallery ==
    \E year \in RegisterYears, department \in RegisterDepartments,
       file_path \in RegisterPaths, identity_count \in RegisterCounts :
        LET r == register_gallery(db, year, department, file_path, identity_count)
        IN /\ db' = r.db
           /\ response' = Reply("register_gallery", IF r.ok THEN 1 ELSE 0,
                                file_path, identity_count)
           /\ UNCHANGED <<face_data, gallery_call, recVars, qcVars, concVars, sessVars>>

\* the batch folders of gallery/data the model starts from
DataPaths == {<<"DPT001", "2027">>, <<"AIDS", "2027">>}

NoDir == [exists |-> FALSE, listing |-> <<>>]

\* the image files of an identity folder: none, one that gives no embedding,
\* a good and a bad one
ImageLists == {<<>>, <<NoEmbedding>>, <<"e1", NoEmbedding>>}

\* a batch folder holding the identity folders ids with the image files
\* images[id], listed in the order of the registration numbers
BatchFolder(ids, images) ==
    [exists |-> TRUE,
     listing |-> [i \in 1..Len(SelectSeq(<<IdA, IdB, IdC>>, LAMBDA x : x \in ids)) |->
                    LET id == SelectSeq(<<IdA, IdB, IdC>>, LAMBDA x : x \in ids)[i]
                    IN <<id, images[id]>>]]

BatchFolders ==
    {NoDir} \cup {BatchFolder(ids, images) :
                    ids \in SUBSET {IdA, IdB, IdC},
                    images \in [{IdA, IdB, IdC} -> ImageLists]}

\* what gallery_call holds before any call
NoGalleryCall ==
    [op |-> "none", path |-> <<>>, previous |-> NoFile, data_dir |-> NoDir,
     augmented |-> FALSE]

\* an update_gallery that forgets what the file held
ExistingGallery_Empty(gallery_data) == <<>>

\* gallery_operations.py lines 92-109: the dict in the existing file; the
\* parallel lists are zipped by index, and an index past the end of embeddings
\* raises into the except branch, which starts from an empty gallery
ExistingGallery(gallery_data) ==
    IF gallery_data.shape \in {"none", "partial"} THEN <<>>
    ELSE IF gallery_data.shape = "parallel"
    THEN IF Len(gallery_data.embeddings) < Len(gallery_data.identities) THEN <<>>
         ELSE DictUpdate(<<>>, [i \in 1..Len(gallery_data.identities) |->
                                  <<gallery_data.identities[i],
                                    gallery_data.embeddings[i]>>])
    ELSE gallery_data.dict

RECURSIVE UpdateLoop(_, _, _)
\* gallery_operations.py lines 122-170: the loop over the identity folders of
\* new_data_dir
UpdateLoop(listing, augmented, updated_gallery) ==
    IF listing = <<>> THEN updated_gallery
    ELSE LET identity == listing[1][1]
             image_files == listing[1][2]
             embeddings == SelectSeq(image_files, LAMBDA e : e # NoEmbedding)
         IN IF image_files = <<>> \/ embeddings = <<>>
            THEN UpdateLoop(Tail(listing), augmented, updated_gallery)
            ELSE UpdateLoop(Tail(listing), augmented,
                            DictSet(updated_gallery, identity,
                                    Centroid(embeddings, augmented)))

\* gallery_operations.py lines 86-187: the dict update_gallery returns
update_gallery(gallery_data, new_data_dir, augmented) ==
    UpdateLoop(new_data_dir.listing, augmented, ExistingGallery(gallery_data))

\* lines 177-184: the file update_gallery saves
Serializable(updated_gallery) ==
    ParallelFile(DictKeys(updated_gallery),
                 [i \in 1..Len(updated_gallery) |-> updated_gallery[i][2]])

\* the gallery file and the data folders of the calls below
UpdatePath == <<"DPT001", "2027">>

UpdateImageLists == {<<>>, <<NoEmbedding>>, <<"e1", NoEmbedding>>, <<"e2">>}

UpdateFolders ==
    {[exists |-> TRUE,
      listing |-> [i \in 1..Len(ids) |-> <<ids[i], images[ids[i]]>>]] :
        ids \in {<<>>, <<IdA>>, <<IdB>>, <<IdA, IdB>>},
        images \in [Identities -> UpdateImageLists]}

\* one call of create_gallery on a data folder
CreateGallery ==
    /\ \E data_dir \in UpdateFolders, augmented \in BOOLEAN :
        /\ gallery_files' =
              [gallery_files EXCEPT ![UpdatePath] =
                  DirectFile(create_gallery(data_dir, augmented))]
        /\ gallery_call' =
              [op |-> "create_gallery", path |-> UpdatePath,
               previous |-> gallery_files[UpdatePath], data_dir |-> data_dir,
               augmented |-> augmented]
    /\ UNCHANGED <<db, face_data, response, rec, qcVars, concVars, sessVars>>

\* one call of update_gallery with output_path = gallery_path
UpdateGallery ==
    /\ \E new_data_dir \in UpdateFolders, augmented \in BOOLEAN :
        /\ gallery_files' =
              [gallery_files EXCEPT ![UpdatePath] =
                  Serializable(update_gallery(@, new_data_dir, augmented))]
        /\ gallery_call' =
              [op |-> "update_gallery", path |-> UpdatePath,
               previous |-> gallery_files[UpdatePath], data_dir |-> new_data_dir,
               augmented |-> augmented]
    /\ UNCHANGED <<db, face_data, response, rec, qcVars, concVars, sessVars>>

\* torch.save(obj, output_path) opens output_path for writing, which creates or
\* truncates it, and writes the archive into it; until it closes the file, the
\* path holds a prefix of the archive, which torch.load rejects
PartialGallery == [shape |-> "partial"]

\* gallery_operations.py lines 82 and 177-184: the file a call saves
SavedFile(call) ==
    IF call.op = "create_gallery"
    THEN DirectFile(create_gallery(call.data_dir, call.augmented))
    ELSE Serializable(update_gallery(call.previous, call.data_dir, call.augmented))

WriteFolders ==
    {[exists |-> TRUE, listing |-> <<>>],
     [exists |-> TRUE, listing |-> <<<<IdA, <<"e1">>>>>>],
     [exists |-> TRUE, listing |-> <<<<IdB, <<"e2">>>>>>],
     [exists |-> TRUE, listing |-> <<<<IdA, <<"e2">>>>, <<IdB, <<"e1">>>>>>]}

\* create_gallery lines 16-82 and update_gallery lines 86-184 up to the moment
\* torch.save has opened the gallery path: the existing file is loaded (update)
\* and the embeddings are computed before the path is touched
save_open(op) ==
    /\ gallery_files[UpdatePath] # PartialGallery
    /\ \E data_dir \in WriteFolders :
        gallery_call' =
            [op |-> op, path |-> UpdatePath, previous |-> gallery_files[UpdatePath],
             data_dir |-> data_dir, augmented |-> FALSE]
    /\ gallery_files' = [gallery_files EXCEPT ![UpdatePath] = PartialGallery]
    /\ UNCHANGED <<db, face_data, response, rec, qcVars, concVars, sessVars>>

\* torch.save writes the rest of the archive and closes the file
save_close ==
    /\ gallery_files[UpdatePath] = PartialGallery
    /\ gallery_files' = [gallery_files EXCEPT ![UpdatePath] = SavedFile(gallery_call)]
    /\ UNCHANGED <<db, face_data, response, gallery_call, rec, qcVars, concVars,
                   sessVars>>

\* services/gallery_service.py lines 15-47: None is the empty list
get_gallery_info(gallery_path, gallery_data) ==
    IF gallery_data.shape = "none" THEN <<>>
    ELSE IF gallery_data.shape = "partial" THEN <<>>
    ELSE LET identities == IF gallery_data.shape = "parallel"
                           THEN gallery_data.identities
                           ELSE DictKeys(gallery_data.dict)
         IN <<[gallery_path |-> gallery_path, identities |-> identities,
               count |-> Len(identities)]>>

\* routes.py lines 167-178: the reply to GET /galleries/{year}/{department} for
\* the file at the gallery path
GalleryReply(gallery_data) ==
    LET gallery_info == get_gallery_info(UpdatePath, gallery_data)
    IN IF gallery_info = <<>> THEN Reply("get_gallery", 404, UpdatePath, 0)
       ELSE Reply("get_gallery", 200, UpdatePath, gallery_info[1].count)

\* GET /galleries/2027/DPT001
get_gallery ==
    /\ response' = GalleryReply(gallery_files[UpdatePath])
    /\ UNCHANGED <<db, face_data, gallery_call, recVars, qcVars, concVars, sessVars>>

\* POST /recognize over the gallery path, on a frame without a face
RecognizeDuringWrite == Recognize({<<UpdatePath>>}, {<<>>})

\* models.py line 449: the module runs init_db whenever a process imports it
InitDb ==
    /\ db' = init_db_on(db)
    /\ response' = Reply("init_db", 200, <<>>, 0)
    /\ UNCHANGED <<face_data, gallery_call, recVars, qcVars, concVars, sessVars>>

\* nothing in the identity store but init_db's rows, no face data
StoreIdle ==
    /\ db = init_db
    /\ face_data = <<>>
    /\ response = NoResponse
    /\ gallery_call = NoGalleryCall

(***************************************************************************)
(* Session documents: src/data_collection/server/app.py                    *)
(***************************************************************************)
\* A str that the code slices or compares is the sequence of its characters;
\* "" and None are both the empty sequence where the code only tests truth.
\* A year string is the number it spells.
RegA == <<"7", "1", "4", "0", "2", "3", "2", "4", "7", "0", "0", "1">>
RegB == <<"7", "1", "4", "0", "2", "3", "2", "4", "7", "0", "0", "2">>
RegNos == {RegA}

\* registration numbers no student has: eight characters, and letters where
\* the admission year is
RegShort == <<"7", "1", "4", "0", "2", "3", "2", "4">>
RegLetters == <<"7", "1", "4", "0", "X", "Y", "2", "4", "7", "0", "0", "1">>

\* what the enrolment page sends as department and name: the display name when
\* the session starts, the display name or the code with the video
StartDeptNames == {<<"C", "S">>}
DeptNames == {<<"2", "4", "7">>, <<"C", "S">>}
Names == {<<"A", "s", "h", "a">>}
YearDisplay == <<"2", "0", "2", "3", " ", "-", " ", "2", "0", "2", "7">>

\* the number of time stamps and session ids the model hands out
MaxClock == 3

IsDigitChar(c) == c \in {"0", "1", "2", "3", "4", "5", "6", "7", "8", "9"}

DigitValue(c) ==
    CASE c = "0" -> 0 [] c = "1" -> 1 [] c = "2" -> 2 [] c = "3" -> 3 [] c = "4" -> 4
      [] c = "5" -> 5 [] c = "6" -> 6 [] c = "7" -> 7 [] c = "8" -> 8 [] c = "9" -> 9

\* regno[a:b] of Python, 0-based and clipped to the string
Slice(str, a, b) ==
    SubSeq(str, a + 1, IF b < Len(str) THEN b ELSE Len(str))

\* <<admission year, graduation year>>; int() of a non-number raises
\* ValueError and the fallback applies
extract_year_from_regno(regno) ==
    LET year_part == Slice(regno, 4, 6)
    IN IF Len(regno) >= 6 /\ \A i \in 1..Len(year_part) : IsDigitChar(year_part[i])
       THEN LET year == 10 * DigitValue(year_part[1]) + DigitValue(year_part[2])
                admission_year == IF year >= 90 THEN 1900 + year ELSE 2000 + year
            IN <<admission_year, admission_year + 4>>
       ELSE <<2023, 2027>>

get_graduation_year(regno) == extract_year_from_regno(regno)[2]

\* the department code, or None
extract_dept_code_from_regno(regno) ==
    IF Len(regno) >= 9 THEN Slice(regno, 6, 9) ELSE <<>>

\* a key a document does not have
Absent == "absent"

\* {regNo}.json; exists tells whether the file is there, a stamp of 0 and a
\* quality field of Absent are keys the document does not have
NoDoc ==
    [exists |-> FALSE, sessionId |-> 0, regNo |-> <<>>, name |-> <<>>, year |-> 0,
     admission_year |-> 0, year_display |-> <<>>, dept |-> <<>>, dept_id |-> <<>>,
     batch |-> 0, startTime |-> 0, videoUploaded |-> FALSE, facesExtracted |-> FALSE,
     facesOrganized |-> FALSE, videoPath |-> <<>>, facesCount |-> 0,
     uploadTime |-> 0, resetTime |-> 0,
     qualityCheck |-> Absent, qualityCategory |-> Absent, qualityDetails |-> NoDetails,
     qualityIssues |-> <<>>, criticalIssues |-> <<>>, majorIssues |-> <<>>,
     minorIssues |-> <<>>]

\* a video file: frames is what a decoder reads from it
NoVideoFile == [exists |-> FALSE, size |-> 0, frames |-> <<>>]
EmptyFile == [exists |-> TRUE, size |-> 0, frames |-> <<>>]
PartialFile == [exists |-> TRUE, size |-> 1, frames |-> <<>>]
VideoFile(frames) == [exists |-> TRUE, size |-> 1, frames |-> frames]

\* {regNo}.webm, the upload as received: nothing but ffmpeg reads it
NoWebm == [exists |-> FALSE, size |-> 0]
Webm(file) == [exists |-> TRUE, size |-> file.size]

\* a student directory; temp_frames tells whether the directory of that name is
\* in it
NoStudentDir ==
    [exists |-> FALSE, doc |-> NoDoc, mp4 |-> NoVideoFile, webm |-> NoWebm,
     temp_frames |-> FALSE]

\* f"{student_id}.mp4" in the student's directory
Mp4Path(dept_code, graduation_year, student_id) ==
    <<dept_code, graduation_year, student_id>>

\* lines 288-304
NewSession(session_id, student_id, name, year_display, dept_name, now) ==
    [NoDoc EXCEPT !.exists = TRUE,
                  !.sessionId = session_id,
                  !.regNo = student_id,
                  !.name = name,
                  !.year = get_graduation_year(student_id),
                  !.admission_year = extract_year_from_regno(student_id)[1],
                  !.year_display = year_display,
                  !.dept = dept_name,
                  !.dept_id = extract_dept_code_from_regno(student_id),
                  !.batch = get_graduation_year(student_id),
                  !.startTime = now]

\* what `last` holds before any call, and the record a call leaves
NoCall ==
    [op |-> "none", regNo |-> <<>>, status |-> 0, branch |-> "none",
     pre_doc |-> NoDoc, pre_mp4 |-> NoVideoFile, attempts |-> 0,
     failed |-> {}, reported |-> {}, session_id |-> 0]

Call(op, regNo, status, branch, pre, attempts) ==
    [op |-> op, regNo |-> regNo, status |-> status, branch |-> branch,
     pre_doc |-> pre.doc, pre_mp4 |-> pre.mp4, attempts |-> attempts,
     failed |-> {}, reported |-> {}, session_id |-> 0]

\* a call of a route that has <session_id> in its URL
SessionCall(session_id, op, regNo, status, branch, pre, attempts) ==
    [Call(op, regNo, status, branch, pre, attempts) EXCEPT !.session_id = session_id]

\* a session id no session was started with
ForgedSessionId == MaxClock + 1

\* the session ids a client puts in the URL for a student: the one
\* start_session returned for the student, or one of others
UrlSessionIds(dir, others) == {dir.doc.sessionId} \cup others

\* a call of the gallery manager on a batch folder
ManagerCall(op) == Call(op, <<>>, 200, "batch", NoStudentDir, 0)

\* a batch call that returned success: the students on whom it failed, and the
\* students its per-student results name
BatchCall(op, failed, reported) ==
    [ManagerCall(op) EXCEPT !.failed = failed, !.reported = reported]

\* POST /api/session/start
start_session ==
    /\ clock < MaxClock
    /\ \E student_id \in DOMAIN student_data, name \in Names,
          dept_name \in StartDeptNames :
        LET dept_code == extract_dept_code_from_regno(student_id)
            pre == student_data[student_id]
        IN IF dept_code = <<>>
           THEN /\ last' = Call("start_session", student_id, 400, "bad_regno", pre, 0)
                /\ UNCHANGED <<student_data, batch_folder, clock>>
           ELSE /\ student_data' =
                    [student_data EXCEPT
                        ![student_id].exists = TRUE,
                        ![student_id].doc =
                            NewSession(clock + 1, student_id, name, YearDisplay,
                                       dept_name, clock + 1)]
                /\ batch_folder' = TRUE
                /\ clock' = clock + 1
                /\ last' = Call("start_session", student_id, 200, "created", pre, 0)
    /\ UNCHANGED <<crops, reports, recVars, qcVars, concVars, dbVars>>

\* lines 421-422
video_encoders == <<"mpeg4", "libopenh264", "libvpx", "libvpx_vp8", "libvpx_vp9", "mjpeg">>
audio_encoders == <<"mp3", "libmp3lame", "pcm_s16le", "aac">>

\* the ffmpeg runs in the order the two loops make them: for each video codec
\* one run per audio codec and then one without audio
NumVariants == Len(video_encoders) * (Len(audio_encoders) + 1)

RECURSIVE TryVariants_SkipTimeout(_, _)
TryVariants_SkipTimeout(outcomes, i) ==
    IF i > NumVariants THEN [made |-> NumVariants, result |-> "all_failed"]
    ELSE IF outcomes[i] = "ok" THEN [made |-> i, result |-> "ok"]
    ELSE TryVariants_SkipTimeout(outcomes, i + 1)

RECURSIVE TryVariants(_, _)
\* lines 427-501: outcomes[i] is what run i does: return 0 ("ok"), return
\* non-zero ("fail"), or exceed timeout=120, which raises TimeoutExpired out of
\* both loops
TryVariants(outcomes, i) ==
    IF i > NumVariants THEN [made |-> NumVariants, result |-> "all_failed"]
    ELSE IF outcomes[i] = "ok" THEN [made |-> i, result |-> "ok"]
    ELSE IF outcomes[i] = "timeout" THEN [made |-> i, result |-> "timeout"]
    ELSE TryVariants(outcomes, i + 1)

\* what a run that fails or is killed leaves at the output path it was given
\* with -y: the file as it was, or the part of the output written so far
Clobbers == {"untouched", "partial"}

AfterFailedRuns(mp4, clobber) ==
    IF clobber = "partial" THEN PartialFile ELSE mp4

\* what a run that returns 0 leaves at the output path
AfterGoodRun(file, output) ==
    IF output = "ok" THEN VideoFile(file.frames)
    ELSE IF output = "empty" THEN EmptyFile
    ELSE NoVideoFile

\* the restore blocks, e.g. lines 506-512
Restore(doc, is_reattempting_user, original_session_data) ==
    IF is_reattempting_user THEN original_session_data ELSE doc

\* lines 557-575
UploadedSession(session_data, student_id, dept_name, year_display, now) ==
    [session_data EXCEPT
        !.videoUploaded = TRUE,
        !.uploadTime = now,
        !.facesExtracted = FALSE,
        !.facesOrganized = FALSE,
        !.facesCount = 0,
        !.videoPath = Mp4Path(extract_dept_code_from_regno(student_id),
                              get_graduation_year(student_id), student_id),
        !.dept = dept_name,
        !.year = get_graduation_year(student_id),
        !.dept_id = extract_dept_code_from_regno(student_id),
        !.year_display = IF year_display # <<>> THEN year_display ELSE @]

Outcome(dir, status, branch, attempts, stamped) ==
    [dir |-> dir, status |-> status, branch |-> branch, attempts |-> attempts,
     stamped |-> stamped]

\* lines 313-701 on the student directory pre; file is the uploaded video part,
\* env what the machine does during the call
UploadVideo(pre, student_id, dept_name, year_display, file, env, now) ==
    LET made_dirs == [pre EXCEPT !.exists = TRUE]
        original_session_data == pre.doc
        is_reattempting_user == pre.doc.videoUploaded
        saved == [made_dirs EXCEPT !.webm = Webm(file)]
        restored == [saved EXCEPT !.doc = Restore(@, is_reattempting_user,
                                                  original_session_data)]
        run == TryVariants(env.outcomes, 1)
        some_run_failed == run.result # "ok" \/ run.made > 1
        after_failures ==
            IF some_run_failed THEN AfterFailedRuns(pre.mp4, env.clobber) ELSE pre.mp4
        mp4 == AfterGoodRun(file, env.output)
        session_data == UploadedSession(pre.doc, student_id, dept_name, year_display, now)
    IN IF ~file.exists THEN Outcome(pre, 400, "no_video", 0, FALSE)
       ELSE IF extract_dept_code_from_regno(student_id) = <<>>
       THEN Outcome(pre, 400, "bad_regno", 0, FALSE)
       ELSE IF ~pre.doc.exists THEN Outcome(made_dirs, 404, "no_session", 0, FALSE)
       ELSE IF file.size = 0 THEN Outcome(restored, 500, "webm_empty", 0, FALSE)
       ELSE IF ~env.ffmpeg THEN Outcome(saved, 500, "ffmpeg_missing", 0, FALSE)
       ELSE IF run.result = "timeout"
       THEN Outcome([restored EXCEPT !.mp4 = after_failures], 500, "timeout",
                    run.made, FALSE)
       ELSE IF run.result = "all_failed"
       THEN Outcome([restored EXCEPT !.mp4 = after_failures], 500, "all_failed",
                    run.made, FALSE)
       ELSE IF ~mp4.exists
       THEN Outcome([restored EXCEPT !.mp4 = mp4], 500, "mp4_missing", run.made, FALSE)
       ELSE IF mp4.size = 0
       THEN Outcome([restored EXCEPT !.mp4 = mp4], 500, "mp4_empty", run.made, FALSE)
       ELSE IF env.readback # "ok"
       THEN Outcome([saved EXCEPT !.mp4 = mp4, !.doc = session_data],
                    500, "readback_failed", run.made, TRUE)
       ELSE Outcome([saved EXCEPT !.mp4 = mp4, !.doc = session_data,
                                  !.webm = NoWebm],
                    200, "uploaded", run.made, TRUE)

\* the videos students record: three good frames; three blurred frames; one
\* face in three frames; a second person walking in
GoodFrames == [i \in 1..3 |-> Frame(1, 20, 30, 50, 80, "front")]
BlurredFrames == [i \in 1..3 |-> Frame(1, 10, 30, 50, 80, "front")]
FewFacesFrames ==
    <<Frame(1, 20, 30, 50, 80, "front"), Frame(0, 0, 0, 0, 0, "unknown"),
      Frame(0, 0, 0, 0, 0, "unknown")>>

UploadFiles ==
    {NoVideoFile, EmptyFile, VideoFile(GoodFrames), VideoFile(BlurredFrames),
     VideoFile(FewFacesFrames)}

\* the runs the model lets decide a transcode
DecisiveRuns == {1, NumVariants}

AllFail == [i \in 1..NumVariants |-> "fail"]

DecidedAt(k, kind) == [i \in 1..NumVariants |-> IF i = k THEN kind ELSE "fail"]

Env(ffmpeg, outcomes, clobber, output, readback) ==
    [ffmpeg |-> ffmpeg, outcomes |-> outcomes, clobber |-> clobber,
     output |-> output, readback |-> readback]

\* the machine when the transcoder is never started
QuietEnv == Env(TRUE, AllFail, "untouched", "ok", "ok")

\* whether the handler gets as far as line 403
TranscoderRuns(pre, student_id, file) ==
    /\ file.exists
    /\ extract_dept_code_from_regno(student_id) # <<>>
    /\ pre.doc.exists
    /\ file.size > 0

\* what the machine can do during one upload
UploadEnvs ==
    {Env(FALSE, AllFail, "untouched", "ok", "ok")}
    \cup {Env(TRUE, AllFail, c, "ok", "ok") : c \in Clobbers}
    \cup {Env(TRUE, DecidedAt(k, "timeout"), c, "ok", "ok") :
            k \in DecisiveRuns, c \in Clobbers}
    \cup {Env(TRUE, DecidedAt(k, "ok"), "untouched", "ok", "ok") : k \in DecisiveRuns}
    \cup {Env(TRUE, [DecidedAt(2, "ok") EXCEPT ![1] = "timeout"], "untouched",
               "ok", "ok")}
    \cup {Env(TRUE, DecidedAt(1, "ok"), "untouched", o, "ok") : o \in {"empty", "missing"}}
    \cup {Env(TRUE, DecidedAt(1, "ok"), "untouched", "ok", "fail")}

\* POST /api/upload/<session_id>; session_id is not read by the handler
upload_video_with(others) ==
    /\ clock < MaxClock
    /\ \E student_id \in DOMAIN student_data, dept_name \in DeptNames,
          file \in UploadFiles :
       \E session_id \in UrlSessionIds(student_data[student_id], others) :
       \E env \in IF TranscoderRuns(student_data[student_id], student_id, file)
                  THEN UploadEnvs ELSE {QuietEnv} :
       \E out \in {UploadVideo(student_data[student_id], student_id, dept_name,
                                YearDisplay, file, env, clock + 1)} :
           /\ student_data' = [student_data EXCEPT ![student_id] = out.dir]
           /\ batch_folder' = (batch_folder \/ out.dir.exists)
           /\ clock' = IF out.stamped THEN clock + 1 ELSE clock
           /\ last' = SessionCall(session_id, "upload_video", student_id, out.status,
                                  out.branch, student_data[student_id], out.attempts)
    /\ UNCHANGED <<crops, reports, recVars, qcVars, concVars, dbVars>>

\* the page uploads under the session id start_session gave it
upload_video == upload_video_with({})

\* a client that uploads under another session id as well
upload_video_any_session == upload_video_with({ForgedSessionId})

\* POST /api/reset-faces/<session_id>; session_id is not read by the handler
reset_faces_with(others) ==
    /\ clock < MaxClock
    /\ \E student_id \in DOMAIN student_data :
       \E session_id \in UrlSessionIds(student_data[student_id], others) :
        LET pre == student_data[student_id]
            gallery_student_dir == crops[student_id]
            reset_success == gallery_student_dir.exists \/ pre.doc.exists
        IN IF extract_dept_code_from_regno(student_id) = <<>>
           THEN /\ last' = SessionCall(session_id, "reset_faces", student_id, 400,
                                       "bad_regno", pre, 0)
                /\ UNCHANGED <<student_data, crops, clock>>
           ELSE /\ crops' = [crops EXCEPT ![student_id].files = {}]
                /\ IF pre.doc.exists
                   THEN /\ student_data' =
                             [student_data EXCEPT
                                 ![student_id].doc.facesExtracted = FALSE,
                                 ![student_id].doc.facesOrganized = FALSE,
                                 ![student_id].doc.facesCount = 0,
                                 ![student_id].doc.resetTime = clock + 1]
                        /\ clock' = clock + 1
                   ELSE UNCHANGED <<student_data, clock>>
                /\ last' = SessionCall(session_id, "reset_faces", student_id,
                                       IF reset_success THEN 200 ELSE 404,
                                       IF reset_success THEN "reset" ELSE "nothing",
                                       pre, 0)
    /\ UNCHANGED <<batch_folder, reports, recVars, qcVars, concVars, dbVars>>

reset_faces == reset_faces_with({})

reset_faces_any_session == reset_faces_with({ForgedSessionId})

\* no student has enrolled
InitSession ==
    /\ student_data = [r \in RegNos |-> NoStudentDir]
    /\ batch_folder = FALSE
    /\ crops = [r \in RegNos |-> [exists |-> FALSE, files |-> {}]]
    /\ clock = 0
    /\ last = NoCall
    /\ reports = <<>>

(***************************************************************************)
(* Batch operations of the gallery manager on the session documents:       *)
(* src/src/quality_checker.py, src/src/services/student_data_service.py,   *)
(* src/src/database/models.py                                              *)
(***************************************************************************)
\* f"{dept}_{year}" under data/student_data and under gallery/data
StudentFolder(regno) ==
    <<extract_dept_code_from_regno(regno), get_graduation_year(regno)>>

\* the batch folders the manager is asked about
RequestFolders == {<<<<"2", "4", "7">>, 2027>>, <<<<"C", "S">>, 2027>>}

FolderExists(folder) ==
    batch_folder /\ \E r \in RegNos : StudentFolder(r) = folder

\* os.listdir of a batch folder: the student directories, in one fixed order
RegNoOrder == <<RegA, RegB>>

ListDir(data, folder) ==
    SelectSeq(RegNoOrder,
              LAMBDA r : r \in DOMAIN data /\ data[r].exists /\ StudentFolder(r) = folder)

\* quality_checker.py lines 440-446
WithQuality(student_data_doc, quality_result) ==
    [student_data_doc EXCEPT
        !.qualityCheck = quality_result.overall_quality,
        !.qualityCategory = quality_result.category,
        !.qualityDetails = quality_result.details,
        !.qualityIssues = quality_result.quality_issues,
        !.criticalIssues = quality_result.critical_issues,
        !.majorIssues = quality_result.major_issues,
        !.minorIssues = quality_result.minor_issues]

NoReport(dept, year) ==
    [department |-> dept, year |-> year, passed_students |-> <<>>,
     failed_students |-> <<>>, borderline_students |-> <<>>, total_checked |-> 0]

\* a categorisation that counts the borderline students without listing them
Counted_BorderlineUnlisted(acc, student_id, quality_result) ==
    [acc EXCEPT
        !.passed_students =
            IF quality_result.category = "pass" THEN Append(@, student_id) ELSE @,
        !.failed_students =
            IF quality_result.category \notin {"pass", "borderline"}
            THEN Append(@, student_id) ELSE @,
        !.total_checked = @ + 1]

\* quality_checker.py lines 455-466
Counted(acc, student_id, quality_result) ==
    [acc EXCEPT
        !.passed_students =
            IF quality_result.category = "pass" THEN Append(@, student_id) ELSE @,
        !.borderline_students =
            IF quality_result.category = "borderline"
            THEN Append(@, [regNo |-> student_id,
                            issues |-> quality_result.quality_issues])
            ELSE @,
        !.failed_students =
            IF quality_result.category \notin {"pass", "borderline"}
            THEN Append(@, student_id) ELSE @,
        !.total_checked = @ + 1]

RECURSIVE QualityLoop(_, _, _, _)
\* quality_checker.py lines 403-470: the loop over the student directories;
\* acc is the report so far, data the student directories so far; raising are
\* the students whose try block raises at json.load (line 421), which lines
\* 468-470 answer with continue
QualityLoop(student_dirs, data, acc, raising) ==
    IF student_dirs = <<>> THEN [data |-> data, report |-> acc]
    ELSE LET student_id == student_dirs[1]
             dir == data[student_id]
             quality_result ==
                check_single_video_quality([exists |-> dir.mp4.exists,
                                            frames |-> dir.mp4.frames])
             written == [data EXCEPT ![student_id].doc = WithQuality(@, quality_result)]
             counted == Counted(acc, student_id, quality_result)
         IN IF ~dir.mp4.exists \/ ~dir.doc.exists
            THEN QualityLoop(Tail(student_dirs), data, acc, raising)
            ELSE IF student_id \in raising
            THEN QualityLoop(Tail(student_dirs), data, acc, raising)
            ELSE QualityLoop(Tail(student_dirs), written, counted, raising)

RemoveAt(rows, i) == SubSeq(rows, 1, i - 1) \o SubSeq(rows, i + 1, Len(rows))

\* models.py lines 344-401: the newest report of the batch is deleted with its
\* result rows, then the new report and its result rows are inserted
save_quality_check_report(table, report_data) ==
    LET hits == {i \in 1..Len(table) : /\ table[i].department = report_data.department
                                       /\ table[i].year = report_data.year}
        existing_report ==
            IF hits = {} THEN <<>> ELSE <<CHOOSE i \in hits : \A j \in hits : j <= i>>
        kept == IF existing_report = <<>> THEN table
                ELSE RemoveAt(table, existing_report[1])
        results ==
            [i \in 1..Len(report_data.passed_students) |->
                [student_id |-> report_data.passed_students[i], status |-> "pass",
                 issues |-> <<>>]]
            \o [i \in 1..Len(report_data.failed_students) |->
                [student_id |-> report_data.failed_students[i], status |-> "fail",
                 issues |-> <<>>]]
            \o [i \in 1..Len(report_data.borderline_students) |->
                [student_id |-> report_data.borderline_students[i].regNo,
                 status |-> "borderline",
                 issues |-> report_data.borderline_students[i].issues]]
    IN Append(kept,
              [department |-> report_data.department,
               year |-> report_data.year,
               total_checked |-> report_data.total_checked,
               passed_count |-> Len(report_data.passed_students),
               failed_count |-> Len(report_data.failed_students),
               borderline_count |-> Len(report_data.borderline_students),
               results |-> results])

\* quality_checker.py lines 415-417: the students the loop does not skip
Checkable(data, folder) ==
    {ListDir(data, folder)[i] : i \in 1..Len(ListDir(data, folder))}
    \cap {r \in DOMAIN data : data[r].mp4.exists /\ data[r].doc.exists}

\* quality_checker.py lines 477-484: the students the returned report names
Listed(report) ==
    {report.passed_students[i] : i \in 1..Len(report.passed_students)}
    \cup {report.failed_students[i] : i \in 1..Len(report.failed_students)}
    \cup {report.borderline_students[i].regNo :
            i \in 1..Len(report.borderline_students)}

\* POST /student-data/{dept}/{year}/quality-check; raising are the students
\* whose session document cannot be parsed when the loop reaches them
check_student_data_quality ==
    \E folder \in RequestFolders :
        /\ FolderExists(folder)
        /\ \E raising \in SUBSET Checkable(student_data, folder) :
           \E done \in {QualityLoop(ListDir(student_data, folder), student_data,
                                     NoReport(folder[1], folder[2]), raising)} :
              /\ student_data' = done.data
              /\ reports' = save_quality_check_report(reports, done.report)
              /\ last' = BatchCall("check_student_data_quality", raising,
                                   Listed(done.report))
    /\ UNCHANGED <<batch_folder, crops, clock, recVars, qcVars, concVars, dbVars>>

\* student_data_service.py lines 297-300 without line 300
Promoted_CheckOnly(doc) == [doc EXCEPT !.qualityCheck = "pass"]

\* student_data_service.py lines 297-300
Promoted(doc) == [doc EXCEPT !.qualityCheck = "pass", !.qualityCategory = "pass"]

RECURSIVE PromoteLoop(_, _)
\* student_data_service.py lines 283-311
PromoteLoop(student_dirs, data) ==
    IF student_dirs = <<>> THEN data
    ELSE LET student_id == student_dirs[1]
             dir == data[student_id]
         IN IF dir.doc.exists /\ dir.doc.qualityCategory = "borderline"
            THEN PromoteLoop(Tail(student_dirs),
                             [data EXCEPT ![student_id].doc = Promoted(@)])
            ELSE PromoteLoop(Tail(student_dirs), data)

\* POST /student-data/{dept}/{year}/process-borderline
process_borderline_students ==
    /\ \E folder \in RequestFolders :
        /\ FolderExists(folder)
        /\ student_data' = PromoteLoop(ListDir(student_data, folder), student_data)
    /\ last' = ManagerCall("process_borderline_students")
    /\ UNCHANGED <<batch_folder, crops, clock, reports, recVars, qcVars, concVars, dbVars>>

\* student_data_service.py lines 24-97: the StudentInfo objects of a batch
\* folder: the documents with the defaults of lines 39-84 filled in
StudentInfo(doc) ==
    [doc EXCEPT !.qualityCheck = IF @ = Absent THEN "not_tested" ELSE @]

get_students_in_folder(data, folder) ==
    LET with_json == SelectSeq(ListDir(data, folder), LAMBDA r : data[r].doc.exists)
    IN [i \in 1..Len(with_json) |-> StudentInfo(data[with_json[i]].doc)]

\* the crop files detect_and_crop_faces writes for the frames of a video:
\* frame_{i}_face_{j}.jpg for each face j of frame i
CropFiles(frames) ==
    {<<i, j>> \in (1..Len(frames)) \X {0, 1} : j < frames[i].faces}

\* student_data_service.py lines 119-224: StudentInfo has no dept_id field, so
\* dept_folder is the display name student.dept; lines 143-153 make temp_frames
\* and return when no frame was extracted, lines 170-178 remove it
process_student_video(dir, crop_dir, student) ==
    LET dept_folder == student.dept
        source_folder == <<dept_folder, student.year>>
        video_found == source_folder = StudentFolder(student.regNo) /\ dir.mp4.exists
        frame_paths == dir.mp4.frames
        all_face_paths == CropFiles(frame_paths)
    IN IF ~video_found
       THEN [success |-> FALSE, dir |-> dir, crop_dir |-> crop_dir]
       ELSE IF frame_paths = <<>>
       THEN [success |-> FALSE, dir |-> [dir EXCEPT !.temp_frames = TRUE],
             crop_dir |-> [crop_dir EXCEPT !.exists = TRUE]]
       ELSE [success |-> TRUE,
             dir |-> [dir EXCEPT !.temp_frames = FALSE,
                                 !.doc.facesExtracted = TRUE,
                                 !.doc.facesOrganized = TRUE,
                                 !.doc.facesCount = Cardinality(all_face_paths)],
             crop_dir |-> [exists |-> TRUE,
                           files |-> crop_dir.files \cup all_face_paths]]

RECURSIVE ProcessLoop(_, _, _)
\* student_data_service.py lines 343-358
ProcessLoop(students, data, crop_dirs) ==
    IF students = <<>> THEN [data |-> data, crops |-> crop_dirs, results |-> <<>>]
    ELSE LET student == students[1]
             r == student.regNo
             result == process_student_video(data[r], crop_dirs[r], student)
             rest == ProcessLoop(Tail(students),
                                 [data EXCEPT ![r] = result.dir],
                                 [crop_dirs EXCEPT ![r] = result.crop_dir])
         IN [rest EXCEPT !.results =
                <<[student |-> r, success |-> result.success]>> \o @]

\* an extraction that does not look at the quality check
QualityPassed_Any(student) == TRUE

\* student_data_service.py line 333
QualityPassed(student) == student.qualityCheck \in {"pass", "not_tested"}

\* POST /student-data/{dept}/{year}/process
process_students_videos ==
    /\ \E folder \in RequestFolders :
        LET students == get_students_in_folder(student_data, folder)
            pending_students ==
                SelectSeq(students, LAMBDA st : st.videoUploaded /\ ~st.facesExtracted)
            quality_passed_students == SelectSeq(pending_students, QualityPassed)
        IN \E done \in {ProcessLoop(quality_passed_students, student_data, crops)} :
              /\ student_data' = done.data
              /\ crops' = done.crops
              /\ last' =
                    BatchCall("process_students_videos",
                              {done.results[i].student :
                                  i \in {j \in 1..Len(done.results) :
                                            ~done.results[j].success}},
                              {done.results[i].student : i \in 1..Len(done.results)})
    /\ UNCHANGED <<batch_folder, clock, reports, recVars, qcVars, concVars, dbVars>>

\* student_data_service.py lines 226-269: shutil.rmtree is called on the
\* student's directory under data/student_data only; gallery/data is not touched
DeletedCrops(crop_dirs, deleted_students) == crop_dirs

\* student_data_service.py lines 237-258: the students whose session document
\* has the requested qualityCategory
MatchingStudents(data, folder, quality_category) ==
    {r \in DOMAIN data :
        /\ data[r].exists /\ StudentFolder(r) = folder
        /\ data[r].doc.exists
        /\ data[r].doc.qualityCategory = quality_category}

\* DELETE /student-data/{dept}/{year}/quality/{category}
delete_students_by_quality ==
    /\ \E folder \in RequestFolders, quality_category \in {"fail", "borderline"} :
        IF ~FolderExists(folder)
        THEN /\ last' = [ManagerCall("delete_students_by_quality")
                            EXCEPT !.status = 404, !.branch = "not_found"]
             /\ UNCHANGED <<student_data, crops>>
        ELSE LET deleted_students ==
                    MatchingStudents(student_data, folder, quality_category)
             IN /\ student_data' =
                      [r \in DOMAIN student_data |->
                          IF r \in deleted_students THEN NoStudentDir
                          ELSE student_data[r]]
                /\ crops' = DeletedCrops(crops, deleted_students)
                /\ last' = BatchCall("delete_students_by_quality", {},
                                     deleted_students)
    /\ UNCHANGED <<batch_folder, clock, reports, recVars, qcVars, concVars, dbVars>>

\* the image files of an identity folder of gallery/data, by frame and face
CropImages(files) ==
    LET rank(f) == 1 + Cardinality({g \in files : 2 * g[1] + g[2] < 2 * f[1] + f[2]})
    IN [k \in 1..Cardinality(files) |-> CHOOSE f \in files : rank(f) = k]

\* gallery/data/{dept}_{year} as create_gallery lists it: the identity folders
\* with their image files
CropsFolder(crop_dirs, folder) ==
    LET identities ==
            SelectSeq(RegNoOrder,
                      LAMBDA r : /\ r \in DOMAIN crop_dirs
                                 /\ crop_dirs[r].exists
                                 /\ StudentFolder(r) = folder)
    IN [exists |-> identities # <<>>,
        listing |-> [i \in 1..Len(identities) |->
                        <<identities[i], CropImages(crop_dirs[identities[i]].files)>>]]

\* gallery_operations.py lines 16-84 on the crops of a batch: the gallery is
\* built from the identity folders alone, no session document is read
create_batch_gallery ==
    /\ \E folder \in RequestFolders, augmented \in BOOLEAN :
        LET data_dir == CropsFolder(crops, folder)
            gallery == create_gallery(data_dir, augmented)
        IN /\ data_dir.exists
           /\ gallery_files' = [gallery_files EXCEPT ![folder] = DirectFile(gallery)]
           /\ last' = BatchCall("create_gallery", {},
                                {gallery[i][1] : i \in 1..Len(gallery)})
    /\ UNCHANGED <<student_data, batch_folder, crops, clock, reports, rec, qcVars,
                   concVars, dbVars>>

(***************************************************************************)
(* The upload handler and the quality gate step by step. The collection    *)
(* server (src/data_collection/server/app.py) and the gallery manager      *)
(* (src/src/quality_checker.py) are two processes on one data directory;   *)
(* neither takes a lock nor writes through a temporary file.               *)
(***************************************************************************)
NoRequest ==
    [pc |-> "idle", student_id |-> <<>>, dept_name |-> <<>>, file |-> NoVideoFile,
     session_data |-> NoDoc, original_session_data |-> NoDoc, status |-> 0]

NoGateRun == [pc |-> "idle", student_id |-> <<>>, doc |-> NoDoc]

\* the videos uploaded while the gate may be running
ConcFiles ==
    {VideoFile(GoodFrames), VideoFile(BlurredFrames), VideoFile(FewFacesFrames)}

\* the transcoder during such an upload: the first variant works, or none does
ConcEnvs ==
    {Env(TRUE, DecidedAt(1, "ok"), "untouched", "ok", "ok"),
     Env(TRUE, AllFail, "untouched", "ok", "ok")}

\* app.py lines 344-361: the session document is read and the webm saved
upload_read ==
    /\ upload_req.pc = "idle"
    /\ \E student_id \in RegNos, dept_name \in StartDeptNames, file \in ConcFiles :
        /\ student_data[student_id].doc.exists
        /\ upload_req' =
            [pc |-> "saved", student_id |-> student_id, dept_name |-> dept_name,
             file |-> file,
             session_data |-> student_data[student_id].doc,
             original_session_data |-> student_data[student_id].doc,
             status |-> 0]
        /\ student_data' = [student_data EXCEPT ![student_id].webm = Webm(file)]
    /\ UNCHANGED <<batch_folder, crops, clock, last, reports, gate_run, report_db,
                   scheduler,
                   recVars, qcVars, dbVars>>

\* app.py lines 403-548: the transcoder runs; when every variant fails the
\* document of a re-attempting student is written back as it was read
upload_transcode ==
    /\ upload_req.pc = "saved"
    /\ \E env \in ConcEnvs :
        LET student_id == upload_req.student_id
            run == TryVariants(env.outcomes, 1)
            is_reattempting_user == upload_req.original_session_data.videoUploaded
        IN IF run.result = "ok"
           THEN /\ student_data' =
                    [student_data EXCEPT
                        ![student_id].mp4 = AfterGoodRun(upload_req.file, env.output)]
                /\ upload_req' = [upload_req EXCEPT !.pc = "transcoded"]
           ELSE /\ student_data' =
                    [student_data EXCEPT
                        ![student_id].doc =
                            Restore(@, is_reattempting_user,
                                    upload_req.original_session_data)]
                /\ upload_req' = [upload_req EXCEPT !.pc = "done", !.status = 500]
    /\ UNCHANGED <<batch_folder, crops, clock, last, reports, gate_run, report_db,
                   scheduler,
                   recVars, qcVars, dbVars>>

\* app.py lines 557-581: the document read at line 348 is updated and written
upload_write ==
    /\ upload_req.pc = "transcoded"
    /\ clock < MaxClock
    /\ LET student_id == upload_req.student_id
           session_data ==
               UploadedSession(upload_req.session_data, student_id,
                               upload_req.dept_name, YearDisplay, clock + 1)
       IN /\ student_data' = [student_data EXCEPT ![student_id].doc = session_data]
          /\ upload_req' = [upload_req EXCEPT !.pc = "written",
                                              !.session_data = session_data]
    /\ clock' = clock + 1
    /\ UNCHANGED <<batch_folder, crops, last, reports, gate_run, report_db, scheduler,
                   recVars, qcVars, dbVars>>

\* app.py lines 584-613: the document is read back; the webm is removed and
\* 200 returned when it says videoUploaded
upload_verify ==
    /\ upload_req.pc = "written"
    /\ LET student_id == upload_req.student_id
           verification_data == student_data[student_id].doc
       IN IF verification_data.videoUploaded
          THEN /\ student_data' = [student_data EXCEPT ![student_id].webm = NoWebm]
               /\ upload_req' = [upload_req EXCEPT !.pc = "done", !.status = 200]
          ELSE /\ upload_req' = [upload_req EXCEPT !.pc = "done", !.status = 500]
               /\ UNCHANGED student_data
    /\ UNCHANGED <<batch_folder, crops, clock, last, reports, gate_run, report_db,
                   scheduler,
                   recVars, qcVars, dbVars>>

\* quality_checker.py lines 403-422: the gate finds the student's mp4 and json
\* and loads the json
gate_read ==
    /\ gate_run.pc = "idle"
    /\ batch_folder
    /\ \E student_id \in RegNos :
        /\ student_data[student_id].mp4.exists
        /\ student_data[student_id].doc.exists
        /\ gate_run' = [pc |-> "read", student_id |-> student_id,
                        doc |-> student_data[student_id].doc]
    /\ UNCHANGED <<student_data, batch_folder, crops, clock, last, reports,
                   upload_req, report_db, scheduler, recVars, qcVars, dbVars>>

\* quality_checker.py lines 436-494: the video is checked, the document loaded
\* at line 421 gets the quality fields and is written, the report is saved
gate_write ==
    /\ gate_run.pc = "read"
    /\ LET student_id == gate_run.student_id
           folder == StudentFolder(student_id)
           loaded == [student_data EXCEPT ![student_id].doc = gate_run.doc]
           done == QualityLoop(<<student_id>>, loaded, NoReport(folder[1], folder[2]),
                               {})
       IN /\ student_data' = done.data
          /\ reports' = save_quality_check_report(reports, done.report)
          /\ gate_run' = [gate_run EXCEPT !.pc = "done",
                                          !.doc = done.data[student_id].doc]
    /\ UNCHANGED <<batch_folder, crops, clock, last, upload_req, report_db, scheduler,
                   recVars, qcVars, dbVars>>

\* a student who has started a session, and one who has also uploaded a video
StartedDir ==
    [NoStudentDir EXCEPT
        !.exists = TRUE,
        !.doc = NewSession(1, RegA, <<"A", "s", "h", "a">>, YearDisplay,
                           <<"C", "S">>, 1)]

UploadedDir(file) ==
    UploadVideo(StartedDir, RegA, <<"C", "S">>, YearDisplay, file,
                Env(TRUE, DecidedAt(1, "ok"), "untouched", "ok", "ok"), 2).dir

(***************************************************************************)
(* The report tables under concurrent connections:                         *)
(* src/src/database/models.py, src/src/database/connection.py. Each call   *)
(* opens its own sqlite3 connection; a SELECT runs outside any transaction *)
(* and the statements from the first DELETE or INSERT to conn.commit() are *)
(* one transaction, which other connections see only once committed.      *)
(***************************************************************************)
Writers == {"w1", "w2"}

\* the reports the two quality checks hand to save_quality_check_report
ReportInputs ==
    {[NoReport(<<"2", "4", "7">>, 2027) EXCEPT
        !.passed_students = <<RegA>>, !.total_checked = 1],
     [NoReport(<<"2", "4", "7">>, 2027) EXCEPT
        !.passed_students = <<RegA>>, !.failed_students = <<RegB>>,
        !.total_checked = 2]}

IdleWriter == [pc |-> "idle", existing_report |-> <<>>, report_data |-> NoReport(<<>>, 0)]

IdleReader == [pc |-> "idle", report |-> <<>>, results |-> <<>>]

NoReportDb ==
    [quality_check_reports |-> <<>>, quality_check_results |-> <<>>, next_id |-> 1,
     writers |-> [w \in Writers |-> IdleWriter], reader |-> IdleReader]



\* ORDER BY created_at DESC LIMIT 1 over the reports of a batch: rows are kept in
\* the order of their insertion
NewestReport(table, department, year) ==
    LET hits == {i \in 1..Len(table) : /\ table[i].department = department
                                       /\ table[i].year = year}
    IN IF hits = {} THEN <<>> ELSE <<table[CHOOSE i \in hits : \A j \in hits : j <= i]>>

\* the rows of lines 379-398 for a report id
ResultRows(report_id, report_data) ==
    [i \in 1..Len(report_data.passed_students) |->
        [report_id |-> report_id, student_id |-> report_data.passed_students[i],
         status |-> "pass"]]
    \o [i \in 1..Len(report_data.failed_students) |->
        [report_id |-> report_id, student_id |-> report_data.failed_students[i],
         status |-> "fail"]]
    \o [i \in 1..Len(report_data.borderline_students) |->
        [report_id |-> report_id, student_id |-> report_data.borderline_students[i].regNo,
         status |-> "borderline"]]

\* models.py lines 346-356: the SELECT of the existing report
save_select(w) ==
    /\ report_db.writers[w].pc = "idle"
    /\ \E report_data \in ReportInputs :
        report_db' =
            [report_db EXCEPT
                !.writers[w] =
                    [pc |-> "selected",
                     existing_report |->
                        NewestReport(report_db.quality_check_reports,
                                     report_data.department, report_data.year),
                     report_data |-> report_data]]
    /\ UNCHANGED <<upload_req, gate_run, scheduler, recVars, qcVars, dbVars, sessVars>>

\* models.py lines 358-401: the deletes and inserts, committed together.  When
\* another report of the batch is left in the table and was created within the
\* same second, UNIQUE(department, year, created_at) rejects the INSERT and the
\* connection is closed without a commit.
save_commit(w) ==
    /\ report_db.writers[w].pc = "selected"
    /\ \E same_second \in BOOLEAN :
        LET me == report_db.writers[w]
            kept_reports ==
                SelectSeq(report_db.quality_check_reports,
                          LAMBDA r : me.existing_report = <<>>
                                     \/ r.id # me.existing_report[1].id)
            kept_results ==
                SelectSeq(report_db.quality_check_results,
                          LAMBDA r : me.existing_report = <<>>
                                     \/ r.report_id # me.existing_report[1].id)
            report_id == report_db.next_id
            clash ==
                /\ same_second
                /\ NewestReport(kept_reports, me.report_data.department,
                                me.report_data.year) # <<>>
        IN IF clash
           THEN report_db' = [report_db EXCEPT !.writers[w].pc = "failed"]
           ELSE report_db' =
                  [report_db EXCEPT
                      !.quality_check_reports =
                          Append(kept_reports,
                                 [id |-> report_id,
                                  department |-> me.report_data.department,
                                  year |-> me.report_data.year,
                                  total_checked |-> me.report_data.total_checked,
                                  passed_count |-> Len(me.report_data.passed_students),
                                  failed_count |-> Len(me.report_data.failed_students),
                                  borderline_count |->
                                      Len(me.report_data.borderline_students)]),
                      !.quality_check_results =
                          kept_results \o ResultRows(report_id, me.report_data),
                      !.next_id = @ + 1,
                      !.writers[w].pc = "done"]
    /\ UNCHANGED <<upload_req, gate_run, scheduler, recVars, qcVars, dbVars, sessVars>>

\* models.py lines 506-515: get_existing_quality_results selects the newest
\* report of the batch
read_report ==
    /\ report_db.reader.pc = "idle"
    /\ LET report == NewestReport(report_db.quality_check_reports,
                                  <<"2", "4", "7">>, 2027)
       IN report_db' =
            [report_db EXCEPT
                !.reader = [pc |-> IF report = <<>> THEN "done" ELSE "report",
                            report |-> report, results |-> <<>>]]
    /\ UNCHANGED <<upload_req, gate_run, scheduler, recVars, qcVars, dbVars, sessVars>>

\* models.py lines 517-554: it selects the result rows of that report id and
\* returns
read_results ==
    /\ report_db.reader.pc = "report"
    /\ report_db' =
          [report_db EXCEPT
              !.reader.pc = "done",
              !.reader.results =
                  SelectSeq(report_db.quality_check_results,
                            LAMBDA r : r.report_id = report_db.reader.report[1].id)]
    /\ UNCHANGED <<upload_req, gate_run, scheduler, recVars, qcVars, dbVars, sessVars>>

(***************************************************************************)
(* The periodic quality check: src/src/periodic_tasks.py, started by       *)
(* src/src/main.py in every worker process that uvicorn runs.  Each        *)
(* process imports periodic_tasks and so owns a BackgroundScheduler of its *)
(* own; add_job is called without max_instances, so the scheduler keeps    *)
(* its default of one running instance of a job, for this scheduler only.  *)
(***************************************************************************)
MaxWorkers == 2

Workers == 1..MaxWorkers

\* settings.py line 14: GALLERY_MANAGER_WORKERS, 1 when it is not set
WORKERS == 1..MaxWorkers

\* periodic_tasks.py lines 42-43: the scheduler of a process before start()
NoJob == [started |-> FALSE, running |-> FALSE, due |-> "none"]

NoScheduler == [workers |-> 1, jobs |-> [p \in Workers |-> NoJob]]

\* no request in flight, no connection open, no scheduler started
ConcIdle ==
    /\ upload_req = NoRequest /\ gate_run = NoGateRun /\ report_db = NoReportDb
    /\ scheduler = NoScheduler

\* main.py lines 15-20: the startup event of worker process p
startup_event(p) ==
    /\ p <= scheduler.workers
    /\ ~scheduler.jobs[p].started
    /\ scheduler' = [scheduler EXCEPT !.jobs[p].started = TRUE]
    /\ UNCHANGED <<upload_req, gate_run, report_db, recVars, qcVars, dbVars, sessVars>>

\* periodic_tasks.py line 43: the 2-hour interval of process p's scheduler
\* elapses; the job is handed to the executor unless this scheduler still has
\* an instance of it running, in which case the run is skipped
interval_due(p) ==
    /\ scheduler.jobs[p].started
    /\ scheduler' =
          IF scheduler.jobs[p].running
          THEN [scheduler EXCEPT !.jobs[p].due = "skipped"]
          ELSE [scheduler EXCEPT !.jobs[p].running = TRUE,
                                 !.jobs[p].due = "submitted"]
    /\ UNCHANGED <<upload_req, gate_run, report_db, recVars, qcVars, dbVars, sessVars>>

\* services/student_data_service.py lines 13-22: the one batch folder of the model
get_student_data_folders ==
    IF batch_folder THEN <<<<<<"2", "4", "7">>, 2027>>>> ELSE <<>>

RECURSIVE SweepLoop(_, _, _)
\* periodic_tasks.py lines 26-34: check_student_data_quality on every folder
SweepLoop(folders, data, table) ==
    IF folders = <<>> THEN [data |-> data, reports |-> table]
    ELSE LET folder == Head(folders)
             done == QualityLoop(ListDir(data, folder), data,
                                 NoReport(folder[1], folder[2]), {})
         IN SweepLoop(Tail(folders), done.data,
                      save_quality_check_report(table, done.report))

\* periodic_tasks.py lines 12-39: the sweep that process p's scheduler started
\* runs to its end
run_periodic_quality_checks(p) ==
    /\ scheduler.jobs[p].running
    /\ \E out \in {SweepLoop(get_student_data_folders, student_data, reports)} :
          /\ student_data' = out.data
          /\ reports' = out.reports
    /\ last' = ManagerCall("run_periodic_quality_checks")
    /\ scheduler' = [scheduler EXCEPT !.jobs[p].running = FALSE]
    /\ UNCHANGED <<batch_folder, crops, clock, upload_req, gate_run, report_db,
                   recVars, qcVars, dbVars>>

\* the student directories a quality check may find: none, a started session,
\* an uploaded video, and a video a failed re-upload has truncated
EnrolledDir(r) ==
    [NoStudentDir EXCEPT
        !.exists = TRUE,
        !.doc = NewSession(1, r, <<"A", "s", "h", "a">>, YearDisplay, <<"C", "S">>, 1)]

VideoDir(r, file) ==
    UploadVideo(EnrolledDir(r), r, <<"C", "S">>, YearDisplay, file,
                Env(TRUE, DecidedAt(1, "ok"), "untouched", "ok", "ok"), 2).dir

TruncatedDir(r) ==
    UploadVideo(VideoDir(r, VideoFile(GoodFrames)), r, <<"C", "S">>, YearDisplay,
                VideoFile(GoodFrames), Env(TRUE, AllFail, "partial", "ok", "ok"), 3).dir

ReportDirs(r) ==
    {NoStudentDir, EnrolledDir(r), TruncatedDir(r)}
    \cup {VideoDir(r, VideoFile(frames)) :
            frames \in {GoodFrames, BlurredFrames, FewFacesFrames}}

(***************************************************************************)
(* Specifications                                                          *)
(***************************************************************************)
\* One recognition of up to MaxFaces faces against the galleries g1.pth (any
\* content) and g2.pth (absent, or one identity in either shape)
InitRec ==
    /\ ConcIdle
    /\ gallery_files \in
          {f \in [GalleryPaths -> FileContents] :
              f["g2.pth"] \in {NoFile, DirectFile(<<<<IdB, "c1">>>>),
                               ParallelFile(<<IdB>>, <<"c1">>)}}
    /\ rec = NoRecognition
    /\ QualityIdle
    /\ StoreIdle
    /\ InitSession

NextRec == RecognizeFaces

SpecRec == InitRec /\ [][NextRec]_vars

\* One recognition over every list of up to MaxGalleryList gallery paths, any
\* content on disk, for a query image with one face
InitRecLoad ==
    /\ ConcIdle
    /\ gallery_files \in [GalleryPaths -> FileContents]
    /\ rec = NoRecognition
    /\ QualityIdle
    /\ StoreIdle
    /\ InitSession

NextRecLoad == RecognizeOverGalleries

SpecRecLoad == InitRecLoad /\ [][NextRecLoad]_vars

\* The identity store with init_db's rows, any face data for the batch
\* DPT001_2027 and none or one identity for AIDS_2027, no gallery yet
InitStore ==
    /\ ConcIdle
    /\ db = init_db
    /\ face_data \in
          {f \in [DataPaths -> BatchFolders] :
              f[<<"AIDS", "2027">>] \in
                  {NoDir, BatchFolder({IdC}, [x \in {IdA, IdB, IdC} |-> <<"e1", NoEmbedding>>])}}
    /\ gallery_files = [p \in DataPaths |-> NoFile]
    /\ response = NoResponse
    /\ gallery_call = NoGalleryCall
    /\ rec = NoRecognition
    /\ QualityIdle
    /\ InitSession

NextStore ==
    \/ add_department
    \/ create_gallery_endpoint
    \/ delete_gallery

SpecStore == InitStore /\ [][NextStore]_vars

\* the databases a start of the gallery manager may find
StartYears ==
    {<<>>, <<[id |-> 7, year |-> "2031"]>>, init_db.batch_years}

StartDepartments ==
    {<<>>, <<[id |-> 3, department_id |-> "AIDS", name |-> "AI & DS"]>>,
     init_db.departments}

StartGalleries ==
    {<<>>, <<[id |-> 1, year_id |-> 7, department_id |-> 3,
              file_path |-> <<"AIDS", "2031">>, identity_count |-> 2]>>}

StartStudents ==
    {NoStudents}
    \cup {[columns |-> StudentColumns, rows |-> rows] :
            rows \in {<<>>, <<[register_no |-> RegA, section |-> Absent]>>}}
    \cup {[columns |-> StudentColumns \cup {"section"}, rows |-> rows] :
            rows \in {<<>>, <<[register_no |-> RegA, section |-> "A"]>>}}

\* The gallery manager started, once or again, on any database
InitStart ==
    /\ ConcIdle /\ RecIdle /\ QualityIdle /\ InitSession
    /\ db \in [batch_years : StartYears, departments : StartDepartments,
               galleries : StartGalleries, students : StartStudents]
    /\ face_data = <<>>
    /\ response = NoResponse
    /\ gallery_call = NoGalleryCall

NextStart ==
    \/ InitDb
    \/ add_department

SpecStart == InitStart /\ [][NextStart]_vars

\* Calls of register_gallery on the tables init_db leaves
InitRegistry ==
    /\ ConcIdle /\ RecIdle /\ QualityIdle /\ StoreIdle /\ InitSession

NextRegistry == RegisterGallery

SpecRegistry == InitRegistry /\ [][NextRegistry]_vars

\* create_gallery and update_gallery on one gallery file
InitUpdate ==
    /\ ConcIdle /\ QualityIdle /\ StoreIdle /\ InitSession
    /\ gallery_files = [p \in {UpdatePath} |-> NoFile]
    /\ rec = NoRecognition

NextUpdate ==
    \/ CreateGallery
    \/ UpdateGallery

SpecUpdate == InitUpdate /\ [][NextUpdate]_vars

\* Quality checks and promotions over a batch folder of two students
InitReport ==
    /\ ConcIdle /\ RecIdle /\ QualityIdle /\ StoreIdle
    /\ student_data \in
          {f \in [{RegA, RegB} -> UNION {ReportDirs(r) : r \in {RegA, RegB}}] :
              \A r \in {RegA, RegB} : f[r] \in ReportDirs(r)}
    /\ batch_folder = TRUE
    /\ crops = [r \in {RegA, RegB} |-> [exists |-> FALSE, files |-> {}]]
    /\ clock = MaxClock
    /\ last = NoCall
    /\ reports = <<>>

NextReport ==
    \/ check_student_data_quality
    \/ process_borderline_students
    \/ process_students_videos

SpecReport == InitReport /\ [][NextReport]_vars

\* Two quality checks saving their reports of one batch while a page reads
InitReportDb ==
    /\ ConcIdle /\ RecIdle /\ QualityIdle /\ StoreIdle /\ InitSession

NextReportDb ==
    \/ \E w \in Writers : save_select(w)
    \/ \E w \in Writers : save_commit(w)
    \/ read_report
    \/ read_results

SpecReportDb == InitReportDb /\ [][NextReportDb]_vars

\* The worker processes of the gallery manager, each with its own scheduler
InitSweep ==
    /\ upload_req = NoRequest /\ gate_run = NoGateRun /\ report_db = NoReportDb
    /\ RecIdle /\ QualityIdle /\ StoreIdle
    /\ scheduler \in {[NoScheduler EXCEPT !.workers = n] : n \in WORKERS}
    /\ student_data \in
          {f \in [{RegA, RegB} -> UNION {ReportDirs(r) : r \in {RegA, RegB}}] :
              \A r \in {RegA, RegB} : f[r] \in ReportDirs(r)}
    /\ batch_folder = TRUE
    /\ crops = [r \in {RegA, RegB} |-> [exists |-> FALSE, files |-> {}]]
    /\ clock = MaxClock
    /\ last = NoCall
    /\ reports = <<>>

NextSweep ==
    \/ \E p \in Workers : startup_event(p)
    \/ \E p \in Workers : interval_due(p)
    \/ \E p \in Workers : run_periodic_quality_checks(p)

SpecSweep == InitSweep /\ [][NextSweep]_vars

\* A gallery file that exists, written again while the read endpoints are called
InitWrite ==
    /\ ConcIdle /\ QualityIdle /\ StoreIdle /\ InitSession
    /\ gallery_files \in
          {[p \in {UpdatePath} |-> SavedFile([NoGalleryCall EXCEPT
                                                !.op = op, !.data_dir = data_dir])] :
              op \in {"create_gallery", "update_gallery"},
              data_dir \in WriteFolders}
    /\ rec = NoRecognition

NextWrite ==
    \/ save_open("create_gallery")
    \/ save_open("update_gallery")
    \/ save_close
    \/ get_gallery
    \/ RecognizeDuringWrite

SpecWrite == InitWrite /\ [][NextWrite]_vars

\* One call of check_single_video_quality on any video file
InitQuality ==
    /\ ConcIdle
    /\ qvideo \in VideoFiles
    /\ qresult = NotChecked
    /\ RecIdle
    /\ StoreIdle
    /\ InitSession

NextQuality == CheckSingleVideo

SpecQuality == InitQuality /\ [][NextQuality]_vars

\* The enrolment of a student and the manager's work on the batch
InitSess ==
    /\ ConcIdle
    /\ InitSession
    /\ RecIdle
    /\ QualityIdle
    /\ StoreIdle

NextSess ==
    \/ start_session
    \/ upload_video
    \/ reset_faces
    \/ check_student_data_quality
    \/ process_borderline_students
    \/ process_students_videos

Spec == InitSess /\ [][NextSess]_vars

\* From the upload to the gallery of the batch
InitBatch ==
    /\ ConcIdle
    /\ InitSession
    /\ gallery_files = [p \in RequestFolders |-> NoFile]
    /\ rec = NoRecognition
    /\ QualityIdle
    /\ StoreIdle

NextBatch ==
    \/ start_session
    \/ upload_video
    \/ check_student_data_quality
    \/ process_students_videos
    \/ delete_students_by_quality
    \/ create_batch_gallery

SpecBatch == InitBatch /\ [][NextBatch]_vars

\* The collection server called with session ids of the client's choosing
NextForged ==
    \/ start_session
    \/ upload_video_any_session
    \/ reset_faces_any_session
    \/ process_students_videos

SpecForged == InitSess /\ [][NextForged]_vars

\* The enrolment page called with registration numbers that do not parse
InitRegno ==
    /\ ConcIdle /\ RecIdle /\ QualityIdle /\ StoreIdle
    /\ student_data = [r \in {RegShort, RegLetters} |-> NoStudentDir]
    /\ batch_folder = FALSE
    /\ crops = [r \in {RegShort, RegLetters} |-> [exists |-> FALSE, files |-> {}]]
    /\ clock = 0
    /\ last = NoCall
    /\ reports = <<>>

NextRegno ==
    \/ start_session
    \/ upload_video
    \/ reset_faces

SpecRegno == InitRegno /\ [][NextRegno]_vars

InitConc ==
    /\ RecIdle /\ QualityIdle /\ StoreIdle /\ ConcIdle
    /\ \/ student_data = [r \in RegNos |-> StartedDir] /\ clock = 1
       \/ \E file \in ConcFiles :
            student_data = [r \in RegNos |-> UploadedDir(file)] /\ clock = 2
    /\ batch_folder = TRUE
    /\ crops = [r \in RegNos |-> [exists |-> FALSE, files |-> {}]]
    /\ last = NoCall
    /\ reports = <<>>

NextConc ==
    \/ upload_read
    \/ upload_transcode
    \/ upload_write
    \/ upload_verify
    \/ gate_read
    \/ gate_write

SpecConc == InitConc /\ [][NextConc]_vars

(***************************************************************************)
(* Claims on recognition                                                   *)
(***************************************************************************)
\* the similarity of detection bbox of the last call to an identity of the
\* combined gallery
Score(bbox, identity) ==
    rec.faces[bbox][DictGet(rec.result.combined_gallery, identity)]

CombinedIdentities == Range(DictKeys(rec.result.combined_gallery))

\* the identities a detection may get: at or above the threshold
Candidates(bbox) ==
    {i \in CombinedIdentities : Score(bbox, i) >= rec.threshold}

\* the best candidate similarity of a detection, 0 when it has no candidate
BestSimilarity(bbox) ==
    IF Candidates(bbox) = {} THEN 0
    ELSE CHOOSE s \in {Score(bbox, i) : i \in Candidates(bbox)} :
            \A i \in Candidates(bbox) : Score(bbox, i) <= s

Detected == rec.result.detected_faces

\* C7: in every list recognize_faces returns, no identity other than "Unknown"
\* appears more than once.
C7_NoDuplicateIdentity ==
    \A i, j \in 1..Len(Detected) :
        (i # j /\ Detected[i].identity = Detected[j].identity)
            => Detected[i].identity = "Unknown"

\* two faces whose best match is the same identity were both returned, and they
\* were given different identities
C7_Witness ==
    /\ rec.called
    /\ Len(Detected) = 2
    /\ \E i \in CombinedIdentities :
           \A b \in 1..2 : Candidates(b) # {} /\ Score(b, i) = BestSimilarity(b)
    /\ Detected[1].identity # Detected[2].identity
    /\ Detected[1].identity # "Unknown"

\* the example of the claim: faces scoring (A 0.71, B 0.58) and (A 0.63, B 0.61)
\* at the default threshold
C8_Example ==
    /\ rec.called
    /\ rec.threshold = DefaultThreshold
    /\ CombinedIdentities = {IdA, IdB}
    /\ Len(rec.faces) = 2
    /\ \E hi, lo \in 1..2 :
          /\ Score(hi, IdA) = 71 /\ Score(hi, IdB) = 58
          /\ Score(lo, IdA) = 63 /\ Score(lo, IdB) = 61

\* C8: recognize_faces processes the detections in descending order of their
\* best candidate similarity; each detection gets the identity of highest
\* similarity among those at or above the threshold that no earlier detection
\* received, and "Unknown" with similarity 0 when there is none; so every
\* non-Unknown result is at or above the threshold, and in the example the
\* 0.71 face gets A and the other face gets B.
C8_GreedyAssignment ==
    (rec.called /\ rec.result.combined_gallery # <<>>) =>
        /\ Len(Detected) = Len(rec.faces)
        /\ {Detected[k].bounding_box : k \in 1..Len(Detected)} = 1..Len(rec.faces)
        /\ \A k \in 1..(Len(Detected) - 1) :
              BestSimilarity(Detected[k].bounding_box)
                  >= BestSimilarity(Detected[k + 1].bounding_box)
        /\ \A k \in 1..Len(Detected) :
              LET d == Detected[k]
                  earlier == {Detected[j].identity : j \in 1..(k - 1)}
                  free == Candidates(d.bounding_box) \ earlier
              IN IF free = {}
                 THEN d.identity = "Unknown" /\ d.similarity = 0
                 ELSE /\ d.identity \in free
                      /\ d.similarity = Score(d.bounding_box, d.identity)
                      /\ d.similarity >= rec.threshold
                      /\ \A i \in free : Score(d.bounding_box, i) <= d.similarity
        /\ C8_Example =>
              /\ Detected[1].identity = IdA /\ Detected[1].similarity = 71
              /\ Detected[2].identity = IdB /\ Detected[2].similarity = 61

\* the example was recognised: the first result is A at 0.71, the second B at 0.61
C8_Witness ==
    /\ C8_Example
    /\ Detected[1].identity = IdA /\ Detected[1].similarity = 71
    /\ Detected[2].identity = IdB /\ Detected[2].similarity = 61

\* the identity -> centroid map a gallery file holds, in either shape
FileMap(gallery_data) ==
    IF gallery_data.shape = "direct" THEN AsMap(gallery_data.dict)
    ELSE IF gallery_data.shape = "parallel"
         THEN [k \in Range(gallery_data.identities) |->
                 gallery_data.embeddings[
                     CHOOSE i \in 1..Len(gallery_data.identities) :
                         gallery_data.identities[i] = k]]
         ELSE <<>>

\* right-biased union of two maps
Override(m, n) ==
    [k \in (DOMAIN m) \cup (DOMAIN n) |-> IF k \in DOMAIN n THEN n[k] ELSE m[k]]

RECURSIVE UnionOfFiles(_, _)
UnionOfFiles(files, gallery_paths) ==
    IF gallery_paths = <<>> THEN <<>>
    ELSE Override(UnionOfFiles(files, SubSeq(gallery_paths, 1, Len(gallery_paths) - 1)),
                  FileMap(files[gallery_paths[Len(gallery_paths)]]))

\* C9: the combined gallery recognize_faces scores against is the right-biased
\* union, in list order, of the identity -> centroid maps of the listed gallery
\* files, a parallel-array file contributing identities[i] -> embeddings[i].
C9_CombinedIsUnion ==
    rec.called =>
        AsMap(rec.result.combined_gallery) = UnionOfFiles(gallery_files, rec.gallery_paths)

(***************************************************************************)
(* Claims on the quality gate                                              *)
(***************************************************************************)
\* the result of the last check, when the video gave at least one frame
Sampled == qresult.done /\ qvideo.exists /\ qvideo.frames # <<>>

\* C5: for every video from which at least one frame was sampled, the category
\* follows the returned lists: fail exactly when critical_issues is non-empty;
\* otherwise borderline exactly when major_issues or minor_issues is non-empty;
\* pass exactly when all three lists are empty.
C5_CategoryRule ==
    Sampled =>
        LET r == qresult.result
        IN /\ (r.category = "fail") <=> (r.critical_issues # <<>>)
           /\ r.critical_issues = <<>> =>
                ((r.category = "borderline")
                    <=> (r.major_issues # <<>> \/ r.minor_issues # <<>>))
           /\ (r.category = "pass")
                <=> (r.critical_issues = <<>> /\ r.major_issues = <<>>
                     /\ r.minor_issues = <<>>)

\* a video with both poses seen whose result is pass with a minor issue listed
C5_PassWithMinorIssue ==
    /\ Sampled
    /\ {qvideo.frames[i].pose : i \in 1..Len(qvideo.frames)} = {"front", "side"}
    /\ qresult.result.category = "pass"
    /\ qresult.result.minor_issues # <<>>

\* the position of the first sampled frame with more than one face, 0 if none
FirstMultiFace ==
    LET multi == {i \in 1..Len(qvideo.frames) : qvideo.frames[i].faces > 1}
    IN IF multi = {} THEN 0 ELSE CHOOSE i \in multi : \A j \in multi : i <= j

\* the frames before it that show exactly one face
SingleFaceBefore(k) ==
    SelectSeq(SubSeq(qvideo.frames, 1, k - 1), LAMBDA f : f.faces = 1)

\* C23: when check_single_video_quality meets a sampled frame with more than
\* one face it stops there: no later frame is run through the detector or
\* counts in total_faces, multiple_faces_frames or the averages, the category
\* is fail and critical_issues has the multiple-faces entry.
C23_StopsAtMultipleFaces ==
    Sampled /\ FirstMultiFace > 0 =>
        LET k == FirstMultiFace
            r == qresult.result
            single == SingleFaceBefore(k)
            of(field) == [i \in 1..Len(single) |-> single[i][field]]
        IN /\ r.frames_processed = k
           /\ r.details.total_faces = Sum([i \in 1..k |-> qvideo.frames[i].faces])
           /\ r.details.multiple_faces_frames = 1
           /\ r.details.avg_blur_score = Mean(of("blur"))
           /\ r.details.avg_contrast = Mean(of("contrast"))
           /\ r.details.avg_motion_blur = Mean(of("motion"))
           /\ r.details.avg_face_size = Mean(of("size"))
           /\ r.category = "fail"
           /\ \E i \in 1..Len(r.critical_issues) :
                r.critical_issues[i]
                    = "Multiple faces detected in at least one frame (critical fail)"

\* two people in the second of three frames: the third, with one face, is not
\* counted
C23_ThirdFrameNotCounted ==
    /\ Sampled
    /\ Len(qvideo.frames) = 3
    /\ qvideo.frames[1].faces = 1
    /\ qvideo.frames[2].faces = 2
    /\ qvideo.frames[3].faces = 1
    /\ qresult.result.details.total_faces = 3
    /\ qresult.result.frames_processed = 2

\* C24: in every result of check_single_video_quality the aggregate list
\* quality_issues consists of exactly the entries of critical_issues,
\* major_issues and minor_issues, in that order.
C24_IssuesArePartitioned ==
    Sampled =>
        LET r == qresult.result
        IN r.quality_issues = r.critical_issues \o r.major_issues \o r.minor_issues

\* a well-taken video: the missing-poses entry is in minor_issues and the
\* aggregate list is empty
C24_PoseIssueNotAggregated ==
    /\ Sampled
    /\ qresult.result.category = "pass"
    /\ qresult.result.quality_issues = <<>>
    /\ qresult.result.minor_issues = <<"Missing face angles: front, side">>

(***************************************************************************)
(* Claims on the identity store                                            *)
(***************************************************************************)
\* the last request was a create-gallery that reported success
CreateSucceeded == response.op = "create_gallery" /\ response.status = 200

\* the galleries rows of the batch whose artifact is at gallery_path
RowsOfBatch(gallery_path) ==
    SelectSeq(db.galleries,
              LAMBDA g :
                /\ \E i \in 1..Len(db.batch_years) :
                      /\ db.batch_years[i].id = g.year_id
                      /\ db.batch_years[i].year = gallery_path[2]
                /\ \E i \in 1..Len(db.departments) :
                      /\ db.departments[i].id = g.department_id
                      /\ db.departments[i].department_id = gallery_path[1])

\* C10: after create-gallery reports success for a batch, the galleries table
\* holds a row for that batch whose file_path is the path of the written
\* artifact and whose identity_count is the number of identities in it, also
\* when the department's code differs from its display name.
C10_CreatedGalleryIsRegistered ==
    CreateSucceeded =>
        \E i \in 1..Len(RowsOfBatch(response.gallery_path)) :
            LET g == RowsOfBatch(response.gallery_path)[i]
            IN /\ g.file_path = response.gallery_path
               /\ g.identity_count = Len(gallery_files[response.gallery_path].dict)

\* success reported for DPT001_2027 with three identities and no row at all
C10_SuccessWithoutRow ==
    /\ CreateSucceeded
    /\ response.gallery_path = <<"DPT001", "2027">>
    /\ response.identities = 3
    /\ db.galleries = <<>>

\* C11: after any sequence of register_gallery calls the galleries table has at
\* most one row per (batch year, department) pair, also when the file path
\* passed differs from the one registered before.
C11_OneRowPerBatch ==
    \A i, j \in 1..Len(db.galleries) :
        /\ db.galleries[i].year_id = db.galleries[j].year_id
        /\ db.galleries[i].department_id = db.galleries[j].department_id
        => i = j

\* CS 2027 was just registered again under another path and now has two rows
C11_TwoRowsOneBatch ==
    /\ response.op = "register_gallery" /\ response.status = 1
    /\ response.gallery_path = <<"DPT001", "2027">>
    /\ Len(db.galleries) = 2
    /\ db.galleries[1].file_path = <<"CS", "2027">>
    /\ db.galleries[1].department_id = db.galleries[2].department_id
    /\ db.galleries[1].year_id = db.galleries[2].year_id

\* the last request was a delete-gallery that reported success
DeleteSucceeded == response.op = "delete_gallery" /\ response.status = 200

\* C13: after delete-gallery returns success for a batch, neither the gallery
\* file of that batch nor any galleries row for that batch exists.
C13_DeletedGalleryIsGone ==
    DeleteSucceeded =>
        /\ ~GalleryExists(response.gallery_path)
        /\ RowsOfBatch(response.gallery_path) = <<>>

\* the gallery of the department with code AIDS was deleted and a row of that
\* department is still in the table
C13_RowSurvivesDelete ==
    /\ DeleteSucceeded
    /\ response.gallery_path = <<"AIDS", "2027">>
    /\ RowsOfBatch(<<"AIDS", "2027">>) # <<>>

\* C26: init_db is idempotent from every starting database: after a run the
\* students table has a section column and its rows are the rows it had; a run
\* that follows a run changes nothing; default years and departments go only
\* into a table that is empty; galleries are not touched.
C26_InitDbIsIdempotent ==
    [][response'.op = "init_db" =>
        /\ "section" \in db'.students.columns
        /\ Len(db'.students.rows) = Len(db.students.rows)
        /\ db'.galleries = db.galleries
        /\ db.batch_years # <<>> => db'.batch_years = db.batch_years
        /\ db.departments # <<>> => db'.departments = db.departments
        /\ response.op = "init_db" => db' = db]_vars

\* init_db ran on a database with a year and a department of its own and a
\* students table without section: the column was added, no default inserted
C26_MigratedWithoutDefaults ==
    /\ response.op = "init_db"
    /\ Len(db.batch_years) = 1
    /\ Len(db.departments) = 1
    /\ Len(db.students.rows) = 1
    /\ db.students.rows[1].section = "NULL"
    /\ "section" \in db.students.columns

(***************************************************************************)
(* Claims on the gallery artifact                                          *)
(***************************************************************************)
\* the last call was an update_gallery on a gallery file that existed
UpdatedExisting ==
    gallery_call.op = "update_gallery" /\ gallery_call.previous.shape # "none"

\* identity -> centroid in a gallery file of either shape
StoredIn(file) ==
    IF file.shape = "direct" THEN AsMap(file.dict)
    ELSE IF file.shape = "parallel"
    THEN [id \in Range(file.identities) |->
            file.embeddings[CHOOSE i \in 1..Len(file.identities) :
                                file.identities[i] = id]]
    ELSE <<>>

\* the image files of an identity folder of the data directory of the call
ImagesOf(id) ==
    LET listing == gallery_call.data_dir.listing
    IN listing[CHOOSE i \in 1..Len(listing) : listing[i][1] = id][2]

\* the identities of that data directory that yielded at least one embedding
Yielding ==
    {id \in Identities :
        /\ \E i \in 1..Len(gallery_call.data_dir.listing) :
              gallery_call.data_dir.listing[i][1] = id
        /\ \E k \in 1..Len(ImagesOf(id)) : ImagesOf(id)[k] # NoEmbedding}

\* C12: after update_gallery on an existing artifact the saved identity set is
\* the union of the previous identities and the identities of the new data
\* directory that yielded an embedding; a previous identity absent from the new
\* data, or without embedding there, keeps its centroid; an identity in both
\* gets the newly computed centroid; no previous identity is dropped.
C12_UpdateIsUnion ==
    UpdatedExisting =>
        LET previous == StoredIn(gallery_call.previous)
            saved == StoredIn(gallery_files[gallery_call.path])
        IN /\ DOMAIN saved = DOMAIN previous \cup Yielding
           /\ \A id \in DOMAIN previous \ Yielding : saved[id] = previous[id]
           /\ \A id \in Yielding :
                saved[id] = Centroid(SelectSeq(ImagesOf(id), LAMBDA e : e # NoEmbedding),
                                     gallery_call.augmented)

\* an update that kept IdA as it was, recomputed IdB and so changed it
C12_KeptAndRecomputed ==
    /\ UpdatedExisting
    /\ IdA \in DOMAIN StoredIn(gallery_call.previous) \ Yielding
    /\ IdB \in DOMAIN StoredIn(gallery_call.previous) \cap Yielding
    /\ StoredIn(gallery_files[gallery_call.path])[IdB]
         # StoredIn(gallery_call.previous)[IdB]
    /\ StoredIn(gallery_files[gallery_call.path])[IdA]
         = StoredIn(gallery_call.previous)[IdA]

(***************************************************************************)
(* Claims on the session documents                                         *)
(***************************************************************************)
\* the last call was an upload for a student that had a session document
UploadHandled == last.op = "upload_video" /\ last.pre_doc.exists

\* the student directory the last call was about
LastDir == student_data[last.regNo]

\* C1: after upload_video has handled an upload for a student with a session
\* document, exactly one of two things holds: (a) the document has
\* videoUploaded = true, a non-empty mp4 exists and the read-back succeeded, or
\* (b) the document equals its content before the upload started.
C1_UploadAllOrNothing ==
    UploadHandled =>
        LET a == /\ LastDir.doc.videoUploaded
                 /\ LastDir.mp4.exists /\ LastDir.mp4.size > 0
                 /\ last.status = 200
            b == LastDir.doc = last.pre_doc
        IN (a /\ ~b) \/ (~a /\ b)

\* a first upload whose read-back failed: the document is the new one
C1_ReadbackFailed ==
    /\ UploadHandled
    /\ last.branch = "readback_failed"
    /\ ~last.pre_doc.videoUploaded
    /\ LastDir.doc.videoUploaded

\* a file a decoder reads frames from
Working(mp4) == mp4.exists /\ mp4.size > 0 /\ mp4.frames # <<>>

\* the last call was a re-upload, over a working mp4, whose every variant failed
ReuploadAllFailed ==
    /\ UploadHandled
    /\ last.branch = "all_failed"
    /\ last.pre_doc.videoUploaded
    /\ Working(last.pre_mp4)

\* C2: when a student with videoUploaded = true and a working mp4 uploads again
\* and every transcoder variant fails, then after upload_video returns the
\* temporary webm no longer exists and the mp4 on disk is still the previously
\* working one.
C2_FailedReuploadLeavesNoTrace ==
    ReuploadAllFailed =>
        /\ ~LastDir.webm.exists
        /\ LastDir.mp4 = last.pre_mp4

\* every variant of a re-upload failed and the webm is still in the directory
C2_WebmLeftBehind == ReuploadAllFailed /\ LastDir.webm.exists

\* the last call was a startSession for a student that had a session document
Restarted ==
    last.op = "start_session" /\ last.status = 200 /\ last.pre_doc.exists

\* C4: a startSession call for a student who already has a session document
\* does not change the document's videoUploaded, videoPath, facesExtracted,
\* facesOrganized, facesCount or quality fields.
C4_StartKeepsExistingSession ==
    Restarted =>
        LET new == LastDir.doc
            old == last.pre_doc
        IN /\ new.videoUploaded = old.videoUploaded
           /\ new.videoPath = old.videoPath
           /\ new.facesExtracted = old.facesExtracted
           /\ new.facesOrganized = old.facesOrganized
           /\ new.facesCount = old.facesCount
           /\ new.qualityCheck = old.qualityCheck
           /\ new.qualityCategory = old.qualityCategory
           /\ new.qualityDetails = old.qualityDetails
           /\ new.qualityIssues = old.qualityIssues
           /\ new.criticalIssues = old.criticalIssues
           /\ new.majorIssues = old.majorIssues
           /\ new.minorIssues = old.minorIssues

\* a student with an uploaded video starts a session again and the document
\* says no video was uploaded, while the mp4 is still on disk
C4_RestartForgetsUpload ==
    /\ Restarted
    /\ last.pre_doc.videoUploaded
    /\ ~LastDir.doc.videoUploaded
    /\ LastDir.mp4.exists

\* C6: in every session document, after any sequence of startSession, upload,
\* quality gate, borderline promotion, extraction and face reset:
\* qualityCategory = pass implies qualityCheck = pass, and qualityCategory in
\* {borderline, fail} implies qualityCheck = fail.
C6_QualityFieldsAgree ==
    \A r \in RegNos :
        LET doc == student_data[r].doc
        IN doc.exists =>
            /\ doc.qualityCategory = "pass" => doc.qualityCheck = "pass"
            /\ doc.qualityCategory \in {"borderline", "fail"} => doc.qualityCheck = "fail"

\* a borderline document has just been promoted: it still lists its issues
C6_PromotedBorderline ==
    /\ last.op = "process_borderline_students"
    /\ \E r \in RegNos :
        LET doc == student_data[r].doc
        IN /\ doc.exists
           /\ doc.qualityCategory = "pass"
           /\ doc.qualityCheck = "pass"
           /\ doc.qualityIssues # <<>>

\* C14: after any sequence of startSession, upload, re-upload,
\* process_students_videos and reset_faces: a session document with
\* facesExtracted = true has facesOrganized = true and its facesCount equals
\* the number of crop files in the student's folder under gallery/data.
C14_FacesCountMatchesCrops ==
    \A r \in RegNos :
        LET doc == student_data[r].doc
        IN doc.exists /\ doc.facesExtracted =>
            /\ doc.facesOrganized
            /\ doc.facesCount = Cardinality(crops[r].files)

\* a second extraction, after a re-upload, counted fewer faces than there are
\* crop files
C14_StaleCrops ==
    /\ last.op = "process_students_videos"
    /\ \E r \in RegNos :
        /\ student_data[r].doc.facesExtracted
        /\ student_data[r].doc.facesCount < Cardinality(crops[r].files)

\* a student process_students_videos must leave alone
QualityFailed(doc) ==
    doc.exists /\ doc.videoUploaded /\ ~doc.facesExtracted /\ doc.qualityCheck = "fail"

\* C15: process_students_videos extracts faces only for students with
\* videoUploaded = true, facesExtracted = false and qualityCheck in
\* {pass, not_tested}: for a student whose qualityCheck is fail it writes no
\* crops and does not set facesExtracted.
C15_FailedStudentsAreSkipped ==
    [][last'.op = "process_students_videos" =>
        \A r \in RegNos :
            ~(/\ student_data[r].doc.exists
              /\ student_data[r].doc.videoUploaded
              /\ ~student_data[r].doc.facesExtracted
              /\ StudentInfo(student_data[r].doc).qualityCheck \in {"pass", "not_tested"})
            => /\ crops'[r] = crops[r]
               /\ student_data'[r].doc = student_data[r].doc]_vars

\* the extraction ran over a batch folder whose student failed the quality
\* check, with the video where the extraction looks for it, and wrote nothing
C15_FailedStudentSkipped ==
    /\ last.op = "process_students_videos"
    /\ \E r \in RegNos :
        /\ QualityFailed(student_data[r].doc)
        /\ student_data[r].mp4.frames # <<>>
        /\ <<student_data[r].doc.dept, student_data[r].doc.year>> = StudentFolder(r)
        /\ crops[r].files = {}

\* an upload that answered 500 because the transcode did not succeed
TranscodeFailed ==
    /\ last.op = "upload_video"
    /\ last.branch \in {"timeout", "all_failed"}

\* C20: a transcode run that exceeds the 120 s timeout is the failure of that
\* codec variant only: the upload fails for its transcode only after every
\* variant has been attempted
C20_TimeoutTriesRemainingVariants ==
    TranscodeFailed => last.attempts = NumVariants

\* the first run timed out and the upload failed without another run
C20_FailedAfterFirstRun ==
    /\ last.op = "upload_video"
    /\ last.branch = "timeout"
    /\ last.status = 500
    /\ last.attempts = 1

\* the student on whom the extraction was run, with the video where the
\* extraction looks for it
VideoFound(r) ==
    /\ <<student_data[r].doc.dept, student_data[r].doc.year>> = StudentFolder(r)
    /\ student_data[r].mp4.exists

\* C25: whenever process_student_video returns after it has created the
\* student's temp_frames directory, that directory no longer exists
C25_TempFramesRemoved ==
    [][last'.op = "process_students_videos" =>
        \A r \in last'.reported :
            VideoFound(r) => ~student_data'[r].temp_frames]_vars

\* no frame could be read from the student's video and temp_frames is still
\* in the student's directory
C25_TempFramesLeftBehind ==
    /\ last.op = "process_students_videos"
    /\ \E r \in last.failed :
        /\ VideoFound(r)
        /\ student_data[r].mp4.frames = <<>>
        /\ student_data[r].temp_frames

\* C27: for every student get_students_in_folder returns, process_student_video
\* reads the video from the batch folder the student was listed from and
\* writes the crops under the same batch of gallery/data, also when the
\* session's dept (display name) differs from its dept_id (code)
C27_ExtractionUsesListedFolder ==
    last.op = "process_students_videos" =>
        \A r \in last.reported :
            Working(student_data[r].mp4) => r \notin last.failed /\ crops[r].exists

\* the session says dept CS and dept_id 247: the video in 247_2027 was looked
\* for in CS_2027 and not found
C27_VideoSoughtUnderDisplayName ==
    /\ last.op = "process_students_videos"
    /\ \E r \in last.failed :
        /\ Working(student_data[r].mp4)
        /\ student_data[r].doc.dept = <<"C", "S">>
        /\ student_data[r].doc.dept_id = <<"2", "4", "7">>
        /\ StudentFolder(r) = <<<<"2", "4", "7">>, 2027>>
        /\ ~crops[r].exists

\* C28: after a successful upload_video that replaces a student's video the
\* session document carries no qualityCheck and no qualityCategory of the video
\* that was replaced.
ReplacedCheckedVideo ==
    /\ last.op = "upload_video"
    /\ last.status = 200
    /\ last.pre_mp4.exists
    /\ last.pre_doc.qualityCheck # Absent

C28_QualityDescribesCurrentVideo ==
    ReplacedCheckedVideo =>
        LET doc == student_data[last.regNo].doc
        IN /\ doc.qualityCheck = Absent
           /\ doc.qualityCategory = Absent

\* a student whose crops are of a video the quality gate would fail, extracted
\* on the pass of the video uploaded before it
C28_ExtractedOnStalePass ==
    \E r \in DOMAIN student_data :
        LET dir == student_data[r]
        IN /\ last.op = "process_students_videos"
           /\ r \in last.reported \ last.failed
           /\ dir.doc.facesExtracted
           /\ dir.doc.qualityCheck = "pass"
           /\ check_single_video_quality([exists |-> dir.mp4.exists,
                                          frames |-> dir.mp4.frames]).overall_quality
                = "fail"

\* C21: in check_student_data_quality and process_students_videos a failure on
\* one student is reported: the call returns success and the student on whom
\* it failed is among the students its per-student results name
C21_FailuresAreReported ==
    last.op \in {"check_student_data_quality", "process_students_videos"} =>
        /\ last.status = 200
        /\ last.failed \subseteq last.reported

\* a quality check of two students failed on the first, went on to the second
\* and returned a report that names only the second
C21_UnreportedFailure ==
    /\ last.op = "check_student_data_quality"
    /\ last.failed = {RegA}
    /\ last.reported = {RegB}

\* a registration number the entry points must reject
Unparsable(regno) ==
    \/ Len(regno) < 9
    \/ \E i \in {5, 6} : ~IsDigitChar(regno[i])

\* C22: start_session, upload_video and reset_faces reject a registration
\* number that is shorter than 9 characters or whose admission year is not two
\* digits, and create or change no directory or session document for it
C22_UnparsableRegnoIsRejected ==
    /\ \A r \in DOMAIN student_data :
          Unparsable(r) => student_data[r] = NoStudentDir /\ ~crops[r].exists
    /\ (\A r \in DOMAIN student_data : Unparsable(r)) => ~batch_folder
    /\ (last.op # "none" /\ Unparsable(last.regNo)) => last.status = 400

\* a session was started for 7140XY247001 with the default years 2023 and 2027
C22_DefaultYearSubstituted ==
    /\ last.op = "start_session" /\ last.status = 200
    /\ last.regNo = RegLetters
    /\ student_data[RegLetters].doc.exists
    /\ student_data[RegLetters].doc.admission_year = 2023
    /\ student_data[RegLetters].doc.year = 2027
    /\ batch_folder

\* C29: a gallery created for a batch has a centroid only for students who, when
\* it is created, have a session document whose qualityCheck is not fail.
InGallery(gallery_file, identity) ==
    /\ gallery_file.shape = "direct"
    /\ \E i \in 1..Len(gallery_file.dict) : gallery_file.dict[i][1] = identity

C29_GalleryOfAcceptedStudents ==
    last.op = "create_gallery" =>
        \A r \in DOMAIN student_data :
            InGallery(gallery_files[StudentFolder(r)], r) =>
                /\ student_data[r].doc.exists
                /\ student_data[r].doc.qualityCheck # "fail"

\* the gallery has a centroid of a student whose video failed the quality gate
\* after the faces had been extracted from it
C29_FailedStudentInGallery ==
    /\ last.op = "create_gallery"
    /\ \E r \in last.reported :
        /\ InGallery(gallery_files[StudentFolder(r)], r)
        /\ student_data[r].doc.qualityCheck = "fail"
        /\ student_data[r].doc.facesExtracted

\* the gallery has a centroid of a student delete_students_by_quality removed
C29_DeletedStudentInGallery ==
    /\ last.op = "create_gallery"
    /\ \E r \in last.reported :
        /\ InGallery(gallery_files[StudentFolder(r)], r)
        /\ student_data[r] = NoStudentDir
        /\ crops[r].files # {}

\* C30: upload_video and reset_faces change a student's session document, video
\* or crops only when the session id of the request equals the sessionId of the
\* student's session document; a request with another session id is rejected
\* and changes nothing.
OtherSession(call) ==
    /\ call.op \in {"upload_video", "reset_faces"}
    /\ call.session_id # call.pre_doc.sessionId

C30_OtherSessionIsRejected ==
    [][OtherSession(last') =>
          /\ last'.status \in {400, 404}
          /\ \A r \in DOMAIN student_data :
                /\ student_data'[r].doc = student_data[r].doc
                /\ student_data'[r].mp4 = student_data[r].mp4
          /\ crops' = crops]_vars

\* the crops of a student were deleted and the session document was reset by a
\* request under a session id that is not the student's
C30_ResetUnderForgedSession ==
    /\ last.op = "reset_faces"
    /\ last.status = 200
    /\ last.session_id = ForgedSessionId
    /\ last.pre_doc.sessionId # ForgedSessionId
    /\ last.pre_doc.facesExtracted
    /\ ~student_data[last.regNo].doc.facesExtracted
    /\ crops[last.regNo].files = {}

(***************************************************************************)
(* Claims on the quality reports                                           *)
(***************************************************************************)
\* the result rows of a report that name a student
RowsOf(report, student_id) ==
    {i \in 1..Len(report.results) : report.results[i].student_id = student_id}

\* the students of a batch folder the last quality loop checked: those with a
\* video and a session document on whom it did not fail
Checked(department, year) ==
    {r \in DOMAIN student_data :
        /\ StudentFolder(r) = <<department, year>>
        /\ student_data[r].mp4.exists
        /\ student_data[r].doc.exists
        /\ r \notin last.failed}

\* C16: every quality report check_student_data_quality produces and
\* save_quality_check_report stores has total_checked = passed_count +
\* failed_count + borderline_count, and every checked student is in exactly one
\* of the passed, failed and borderline lists.
C16_ReportCountsAddUp ==
    /\ \A i \in 1..Len(reports) :
          LET report == reports[i]
              with(status) == {k \in 1..Len(report.results) :
                                  report.results[k].status = status}
          IN /\ report.total_checked
                  = report.passed_count + report.failed_count + report.borderline_count
             /\ report.passed_count = Cardinality(with("pass"))
             /\ report.failed_count = Cardinality(with("fail"))
             /\ report.borderline_count = Cardinality(with("borderline"))
             /\ Len(report.results) = report.total_checked
    /\ last.op = "check_student_data_quality" =>
          LET report == reports[Len(reports)]
          IN \A r \in DOMAIN student_data :
                Cardinality(RowsOf(report, r))
                    = IF r \in Checked(report.department, report.year) THEN 1 ELSE 0

\* a report over two students, one passed and one borderline
C16_TwoStudentsReported ==
    /\ last.op = "check_student_data_quality"
    /\ Len(reports) = 1
    /\ reports[1].total_checked = 2
    /\ reports[1].passed_count = 1
    /\ reports[1].borderline_count = 1

\* the reports of batch 247_2027 in the table
BatchReports ==
    SelectSeq(report_db.quality_check_reports,
              LAMBDA r : r.department = <<"2", "4", "7">> /\ r.year = 2027)

\* get_existing_quality_results has returned a report
ReaderDone == report_db.reader.pc = "done" /\ report_db.reader.report # <<>>

\* C17: under any interleaving of save_quality_check_report calls and readers
\* of one batch, a reader observes exactly one complete report once one has
\* been written: the previous or the new report with all its result rows; never
\* two reports of the batch, never a report with part of its rows.
C17_ReaderSeesWholeReport ==
    /\ Len(BatchReports) <= 1
    /\ ReaderDone =>
          Len(report_db.reader.results) = report_db.reader.report[1].total_checked

\* the reader returned a report of one checked student and no result row
C17_ReportWithoutRows ==
    /\ ReaderDone
    /\ report_db.reader.report[1].total_checked = 1
    /\ report_db.reader.results = <<>>

(***************************************************************************)
(* Claims on reading a gallery while it is written                         *)
(***************************************************************************)
Writing == gallery_files[UpdatePath] = PartialGallery

\* the artifact at the gallery path before the write in progress, and after it
PreviousArtifact == IF Writing THEN gallery_call.previous ELSE gallery_files[UpdatePath]

NewArtifact == IF Writing THEN SavedFile(gallery_call) ELSE gallery_files[UpdatePath]

WholeArtifacts ==
    {[p \in {UpdatePath} |-> PreviousArtifact], [p \in {UpdatePath} |-> NewArtifact]}

\* C19: a get_gallery_info or recognize_faces call that runs while create_gallery
\* or update_gallery writes the same gallery path answers from the complete
\* previous artifact or from the complete new one, never from a partial file
C19_ReadsWholeArtifact ==
    [][/\ get_gallery =>
            response' \in {GalleryReply(files[UpdatePath]) : files \in WholeArtifacts}
       /\ RecognizeDuringWrite =>
            rec'.result \in {recognize_faces(files, <<UpdatePath>>, <<>>, rec'.threshold) :
                               files \in WholeArtifacts}]_vars

\* the gallery existed before the write and will exist after it, and a client
\* was told that there is no gallery
C19_GalleryNotFound ==
    /\ Writing
    /\ gallery_call.previous # NoFile
    /\ response = Reply("get_gallery", 404, UpdatePath, 0)

(***************************************************************************)
(* Claims on the periodic quality check                                    *)
(***************************************************************************)
Sweeping == {p \in Workers : scheduler.jobs[p].running}

\* C18: at no time are two executions of run_periodic_quality_checks in
\* progress at once, also when the server runs more than one worker process
C18_OneSweepAtATime == Cardinality(Sweeping) <= 1

\* two worker processes are both in the middle of a sweep
C18_TwoSweepsRunning ==
    /\ scheduler.workers = 2
    /\ Sweeping = {1, 2}

(***************************************************************************)
(* Claims on concurrent access to a session document                       *)
(***************************************************************************)
\* an upload that returned 200 and a quality check of the same student have
\* both completed
BothCompleted ==
    /\ upload_req.pc = "done" /\ upload_req.status = 200
    /\ gate_run.pc = "done"
    /\ gate_run.student_id = upload_req.student_id

\* C3: after an upload and a quality check of the same student have both
\* completed, in any interleaving, the session document holds the fields the
\* upload wrote (videoUploaded, uploadTime, videoPath) and the fields the
\* quality gate wrote (qualityCheck, qualityCategory, the issue lists).
C3_NoLostUpdate ==
    BothCompleted =>
        LET doc == student_data[upload_req.student_id].doc
        IN /\ doc.videoUploaded
           /\ doc.uploadTime = upload_req.session_data.uploadTime
           /\ doc.videoPath = upload_req.session_data.videoPath
           /\ doc.qualityCheck = gate_run.doc.qualityCheck
           /\ doc.qualityCategory = gate_run.doc.qualityCategory
           /\ doc.qualityIssues = gate_run.doc.qualityIssues
           /\ doc.criticalIssues = gate_run.doc.criticalIssues
           /\ doc.majorIssues = gate_run.doc.majorIssues
           /\ doc.minorIssues = gate_run.doc.minorIssues

\* both have completed and the document has no quality fields at all
C3_QualityFieldsLost ==
    /\ BothCompleted
    /\ student_data[upload_req.student_id].doc.qualityCheck = Absent

====
